---- MODULE Spec2Model ----
(***************************************************************************)
(* Permission & metadata resolution of the loginPage backend:              *)
(*   - fetchPermissions / handleGetPermissions (permission resolver),      *)
(*   - getExperimentMetadata, both the schema-introspection (Promise.all)  *)
(*     controller and the sequential sampling controller,                  *)
(*   - unwrapValues (value normalizer).                                    *)
(*                                                                         *)
(* JavaScript values are tagged records [t, v]; strings are sequences of   *)
(* tokens in which "." is a token of its own, so that split('.') and       *)
(* template-literal interpolation are computed, not assumed.               *)
(***************************************************************************)
EXTENDS Integers, Sequences, FiniteSets, TLC

VARIABLES
    permTable,              \* rows of user_device_permission.permissions
    pPc,                    \* position of the permissions request
    pVariant,               \* "http" (route + fetchPermissions) or "socket"
    pEmail,                 \* email of the request
    pRows,                  \* rows returned by the grant query
    pIdx,                   \* index of the grant being processed
    formattedPermissions,   \* the list being built
    origin,                 \* ghost: index in pRows of the grant behind each entry
    pResp,                  \* response sent to the caller
    queryLog,               \* ghost: store queries issued one after another, in order
    discovered,             \* ghost: outcome of each discovery query
    tblRows,                \* rows of the experiment table p.d.t
    mPc,                    \* position of the metadata request
    mVariant,               \* "concurrent" (Promise.all) or "sequential" (sampling)
    mExperiments,           \* req.body.experiments
    tasks,                  \* concurrent: one async task per descriptor
    mCompletion,            \* ghost: indices of the tasks in completion order
    sIdx,                   \* sequential: index of the descriptor in progress
    sTimeRange,             \* sequential: timeRangeResults of that descriptor
    metadataResults,        \* sequential: the list being built
    mResp,                  \* response sent to the caller
    failures,               \* ghost: store calls of the metadata request that threw
    sampled,                \* ghost: sequential: sampleRows of each descriptor sampled
    nPc,                    \* normalizer: "idle", "once" or "twice"
    nIn,                    \* the value handed to unwrapValues
    nOut,                   \* unwrapValues(nIn)
    nOut2,                  \* unwrapValues(unwrapValues(nIn))
    dPc,                    \* position of the data request
    dBody,                  \* req.body of the data request
    dQueries,               \* ghost: store queries issued by the data request
    dResp,                  \* response sent to the caller
    userTable,              \* rows of the user table
    lPc,                    \* position of the login attempt
    lVariant,               \* "http" (POST /login) or "socket" (login_attempt)
    lData,                  \* req.body, or the payload of the event
    lResp,                  \* response sent to the caller
    pPrev,                  \* ghost: what the previous resolution of the email delivered
    peer                    \* a second permission request in progress at the same time

permVars == <<permTable, pPc, pVariant, pEmail, pRows, pIdx,
              formattedPermissions, origin, pResp, queryLog, discovered>>

metaVars == <<mPc, mVariant, mExperiments, tasks, mCompletion, sIdx,
              sTimeRange, metadataResults, mResp, failures, sampled>>

normVars == <<nPc, nIn, nOut, nOut2>>
dataVars == <<dPc, dBody, dQueries, dResp>>
loginVars == <<userTable, lPc, lVariant, lData, lResp>>
replayVars == <<pPrev, peer>>

-----------------------------------------------------------------------------
(* Bounds *)

MaxGrants == 2
MaxRows == 3
MaxBatch == 2
MaxDepth == 3

-----------------------------------------------------------------------------
(* JavaScript values *)

JNull == [t |-> "null", v |-> <<>>]
JUndef == [t |-> "undef", v |-> <<>>]
JStr(s) == [t |-> "str", v |-> s]
JNum(n) == [t |-> "num", v |-> n]
JArr(items) == [t |-> "arr", v |-> items]
JObj(pairs) == [t |-> "obj", v |-> pairs]

\* Property names are token sequences, like every string
ValueKey == <<"value">>

\* BigQueryTimestamp as delivered by the warehouse client: { value: <iso string> }
Wrapper(x) == JObj(<< <<ValueKey, x>> >>)

\* JavaScript truthiness of a value
Truthy(x) ==
    CASE x.t = "null" -> FALSE
      [] x.t = "undef" -> FALSE
      [] x.t = "str" -> x.v # <<>>
      [] x.t = "num" -> x.v # 0
      [] OTHER -> TRUE

\* Object.keys(obj)
Keys(x) == [i \in 1..Len(x.v) |-> x.v[i][1]]

\* obj[key]; undefined when the key is absent or the value is a primitive
GetProp(x, key) ==
    IF x.t = "obj" /\ \E i \in 1..Len(x.v) : x.v[i][1] = key
    THEN x.v[CHOOSE i \in 1..Len(x.v) : x.v[i][1] = key][2]
    ELSE JUndef

\* String.prototype.split('.') on a token sequence
RECURSIVE SplitDot(_)
SplitDot(s) ==
    IF s = <<>> THEN << <<>> >>
    ELSE IF Head(s) = "." THEN << <<>> >> \o SplitDot(Tail(s))
    ELSE LET r == SplitDot(Tail(s))
         IN  << <<Head(s)>> \o Head(r) >> \o Tail(r)

\* `${a}.${b}.${c}`
TableRef(a, b, c) == a \o <<".">> \o b \o <<".">> \o c

-----------------------------------------------------------------------------
(* The store: the permission table and the experiment tables *)

Str(tok) == JStr(<<tok>>)

PermissionsTableRef == <<"iucc-f4d", ".", "user_device_permission", ".", "permissions">>

T_pdt == <<"p", ".", "d", ".", "t">>
T_pde == <<"p", ".", "d", ".", "e">>
T_pdn == <<"p", ".", "d", ".", "n">>
T_pdu == <<"p", ".", "d", ".", "u">>

\* Grant rows the permission table may hold.  valid_from and created_at are
\* selected by the query but never read by the resolver.
GrantRows ==
    { [email |-> Str("alice"), owner |-> Str("o1"), mac_address |-> Str("m1"),
       experiment |-> Str("exp_a"), role |-> Str("read"),
       valid_until |-> Wrapper(Str("2030-01-01")), table_id |-> JStr(T_pdt)],
      [email |-> Str("alice"), owner |-> Str("o2"), mac_address |-> Str("m2"),
       experiment |-> Str("exp_x"), role |-> Str("admin"),
       valid_until |-> Wrapper(Str("2031-06-01")), table_id |-> JStr(T_pdt)],
      [email |-> Str("alice"), owner |-> Str("o1"), mac_address |-> Str("m2"),
       experiment |-> Str("exp_a"), role |-> Str("admin"),
       valid_until |-> JNull, table_id |-> JStr(T_pdn)],
      [email |-> Str("alice"), owner |-> Str("o1"), mac_address |-> JNull,
       experiment |-> JNull, role |-> Str("admin"),
       valid_until |-> Wrapper(Str("2031-01-01")), table_id |-> JStr(T_pdu)],
      [email |-> Str("alice"), owner |-> Str("o2"), mac_address |-> Str("m1"),
       experiment |-> Str("exp_b"), role |-> Str("read"),
       valid_until |-> Str("2032-01-01"), table_id |-> JStr(<<"p", ".", "d">>)],
      [email |-> Str("alice"), owner |-> Str("o1"), mac_address |-> Str("m1"),
       experiment |-> Str("exp_b"), role |-> Str("viewer"),
       valid_until |-> JNull, table_id |-> JStr(<<>>)],
      [email |-> Str("alice"), owner |-> Str("o3"), mac_address |-> Str("m1"),
       experiment |-> Str("exp_a"), role |-> Str("admin"),
       valid_until |-> Wrapper(Str("2030-01-01")), table_id |-> JStr(T_pde)],
      [email |-> Str("alice"), owner |-> Str("o3"), mac_address |-> Str("m2"),
       experiment |-> Str("exp_a"), role |-> Str("read"),
       valid_until |-> JNull, table_id |-> JNull],
      [email |-> Str("bob"), owner |-> Str("o1"), mac_address |-> Str("m1"),
       experiment |-> Str("exp_b"), role |-> Str("read"),
       valid_until |-> JNull, table_id |-> JStr(T_pdt)] }

RECURSIVE SeqsUpTo(_, _)
SeqsUpTo(S, n) ==
    IF n = 0 THEN { <<>> }
    ELSE LET shorter == SeqsUpTo(S, n - 1)
         IN  shorter \cup { Append(q, x) : q \in shorter, x \in S }

Emails == { Str("alice"), Str("bob"), Str("nobody"), JUndef }

\* Column names; the sensor namespace is the name prefix SensorData_
C_temperature == <<"SensorData_", "temperature">>
C_humidity == <<"SensorData_", "humidity">>
C_Name == <<"SensorData_", "Name">>
C_TimeStamp == <<"TimeStamp">>
C_Exp_name == <<"ExperimentData_", "Exp_name">>
C_MAC_address == <<"ExperimentData_", "MAC_address">>

\* Rows an experiment table may hold: column name -> value (ts = 0 is NULL)
DataRow(exp, mac, ts, temp, hum, name) ==
    [exp |-> exp, mac |-> mac, ts |-> ts,
     cells |-> << <<C_temperature, temp>>, <<C_humidity, hum>>, <<C_Name, name>> >>]

RowSeq ==
    << DataRow(Str("exp_b"), Str("m1"), 2, JNull, JNull, JNull),
       DataRow(Str("exp_a"), Str("m1"), 1, JNum(20), JNull, Str("dev")),
       DataRow(Str("exp_a"), Str("m2"), 3, JNull, JNum(55), JNull),
       DataRow(Str("exp_c"), Str("m2"), 4, JNull, JNull, Str("dev")) >>

RowPool == { RowSeq[i] : i \in 1..Len(RowSeq) }

Tables == { T_pdt, T_pde, T_pdn }

\* p.d.t holds tblRows, p.d.n the same rows without any sensor column,
\* p.d.e is an empty table; any other reference names no table.
RowsOf(ref) == IF ref \in { T_pdt, T_pdn } THEN tblRows ELSE {}

SensorSchema == << C_temperature, C_humidity, C_Name >>

SchemaOf(ref) ==
    << C_TimeStamp, C_Exp_name, C_MAC_address >>
        \o (IF ref = T_pdn THEN <<>> ELSE SensorSchema)

\* All enumerations of a finite set without repetition
RECURSIVE Enumerations(_)
Enumerations(S) ==
    IF S = {} THEN { <<>> }
    ELSE UNION { { <<x>> \o q : q \in Enumerations(S \ {x}) } : x \in S }

\* SELECT ... FROM permissions WHERE email = @email
GrantQueryResult(email) == SelectSeq(permTable, LAMBDA g : g.email = email)

DiscoveryResults_FirstTimeOnly(ref) ==
    IF "delivered" \notin DOMAIN pPrev
    THEN Enumerations({ r.exp : r \in RowsOf(ref) })
    ELSE { <<>> }

\* SELECT DISTINCT ExperimentData_Exp_name FROM `ref` (row order is the store's)
DiscoveryResults(ref) == Enumerations({ r.exp : r \in RowsOf(ref) })

-----------------------------------------------------------------------------
(* Permission resolver: routes/permissionsRoutes.ts + fetchPermissions,    *)
(* and the socket handler handleGetPermissions                             *)

NoResponse == [kind |-> "none"]
HttpOk(body) == [kind |-> "http", status |-> 200, success |-> TRUE, body |-> body]
HttpError(status, message) ==
    [kind |-> "http", status |-> status, success |-> FALSE, message |-> message]
Emit(body) == [kind |-> "emit", body |-> body]

PermissionsReturned_NotFound(variant, list) ==
    IF variant = "http"
    THEN (IF list = <<>> THEN HttpError(404, "No permissions found") ELSE HttpOk(list))
    ELSE Emit(list)

\* What the caller gets when the resolver returns `list`
PermissionsReturned(variant, list) ==
    IF variant = "http" THEN HttpOk(list) ELSE Emit(list)

PermissionsThrown_Empty(variant) ==
    IF variant = "http" THEN HttpOk(<<>>) ELSE Emit(<<>>)

\* What the caller gets when the resolver throws
PermissionsThrown(variant) ==
    IF variant = "http" THEN HttpError(500, "Internal server error") ELSE Emit(<<>>)

Segments(permission) == SplitDot(permission.table_id.v)
ProjectId(permission) == JStr(Segments(permission)[1])
DatasetId(permission) ==
    IF Len(Segments(permission)) >= 2
    THEN JStr(Segments(permission)[2]) ELSE Str("Unknown dataset")
TableId(permission) ==
    IF Len(Segments(permission)) >= 3
    THEN JStr(Segments(permission)[3]) ELSE JStr(<<>>)

ValidUntilOf(permission) ==
    IF Truthy(permission.valid_until)
    THEN GetProp(permission.valid_until, ValueKey)
    ELSE JNull

AccessLevel_Role(permission) == permission.role

\* access_level: permission.role === 'admin' ? 'admin' : 'read'
AccessLevel(permission) ==
    IF permission.role = Str("admin") THEN Str("admin") ELSE Str("read")

BasePermission(variant, permission) ==
    LET base == [owner |-> permission.owner,
                 mac_address |-> permission.mac_address,
                 experiment_name |-> permission.experiment,
                 valid_until |-> ValidUntilOf(permission),
                 project_id |-> ProjectId(permission),
                 dataset_name |-> DatasetId(permission),
                 table_id |-> permission.table_id,
                 access_level |-> AccessLevel(permission)]
    IN  IF variant = "socket" THEN base @@ [role |-> permission.role] ELSE base

ExpandedEntry_GrantExperiment(base, expName) == base @@ [is_admin |-> TRUE]

\* { ...basePermission, experiment_name: exp.ExperimentData_Exp_name, is_admin: true }
ExpandedEntry(base, expName) ==
    [base EXCEPT !.experiment_name = expName] @@ [is_admin |-> TRUE]

FallbackEntry_NotAdmin(base) == base @@ [is_admin |-> FALSE]

\* { ...basePermission, is_admin: true }
FallbackEntry(base) == base @@ [is_admin |-> TRUE]

ReadEntry_Admin(base) == base @@ [is_admin |-> TRUE]

\* { ...basePermission, is_admin: false }
ReadEntry(base) == base @@ [is_admin |-> FALSE]

AdminQueryRef(permission) ==
    TableRef(ProjectId(permission).v, DatasetId(permission).v, TableId(permission).v)

IsAdminGrant(permission) == permission.role = Str("admin")

\* Every logged query names what its text interpolates (`${...}`), by the
\* place the fragment comes from, and what it binds as a parameter
GrantQueryLog(email) ==
    [kind |-> "grants", ref |-> PermissionsTableRef, params |-> <<email>>, item |-> 0,
     interpolated |-> {}, bound |-> { "body.email" }]

DiscoveryQueryLog(permission, idx) ==
    [kind |-> "discovery", ref |-> AdminQueryRef(permission), params |-> <<>>,
     item |-> idx, interpolated |-> { "grant.table_id" }, bound |-> {}]

\* POST /permissions (or the get_permissions event): the email check of the
\* route, then the grant query is issued.
PermRequest(variant, email) ==
    /\ pPc = "idle"
    /\ pVariant' = variant
    /\ pEmail' = email
    /\ IF variant = "http" /\ ~Truthy(email)
       THEN /\ pResp' = HttpError(400, "Email is required")
            /\ pPc' = "rejected"
            /\ UNCHANGED queryLog
       ELSE /\ queryLog' = Append(queryLog, GrantQueryLog(email))
            /\ pPc' = "awaitGrants"
            /\ UNCHANGED pResp
    /\ UNCHANGED <<permTable, pRows, pIdx, formattedPermissions, origin,
                   discovered, tblRows, metaVars, normVars,
                   dataVars, loginVars, replayVars>>

\* The get_permissions event without any payload: `const { email } = data`
\* throws before the try block, nothing is emitted
PermRequestNoPayload ==
    /\ pPc = "idle"
    /\ pVariant' = "socket"
    /\ pPc' = "crashed"
    /\ UNCHANGED <<permTable, pEmail, pRows, pIdx, formattedPermissions, origin,
                   pResp, queryLog, discovered, tblRows, metaVars, normVars,
                   dataVars, loginVars, replayVars>>

\* The grant query returns: it throws, or yields the rows of the email.
GrantsReturn(ok) ==
    /\ pPc = "awaitGrants"
    /\ ok => pEmail.t = "str"
    /\ IF ~ok
       THEN /\ pResp' = PermissionsThrown(pVariant)
            /\ pPc' = "failed"
            /\ UNCHANGED <<pRows, pIdx>>
       ELSE LET rows == GrantQueryResult(pEmail)
            IN  /\ pRows' = rows
                /\ IF Len(rows) = 0
                   THEN /\ pResp' = PermissionsReturned(pVariant, <<>>)
                        /\ pPc' = "done"
                        /\ UNCHANGED pIdx
                   ELSE /\ pPc' = "loop"
                        /\ pIdx' = 1
                        /\ UNCHANGED pResp
    /\ UNCHANGED <<permTable, pVariant, pEmail, formattedPermissions, origin,
                   queryLog, discovered, tblRows, metaVars, normVars,
                   dataVars, loginVars, replayVars>>

PushAndContinue_Prepend(entries) ==
    LET list == entries \o formattedPermissions
    IN  /\ formattedPermissions' = list
        /\ origin' = [i \in 1..Len(entries) |-> pIdx] \o origin
        /\ IF pIdx = Len(pRows)
           THEN /\ pResp' = PermissionsReturned(pVariant, list)
                /\ pPc' = "done"
                /\ UNCHANGED pIdx
           ELSE /\ pIdx' = pIdx + 1
                /\ pPc' = "loop"
                /\ UNCHANGED pResp

\* End of one loop iteration that pushed `entries` for grant pIdx: the next
\* grant, or the return of the list after the last one.
PushAndContinue(entries) ==
    LET list == formattedPermissions \o entries
    IN  /\ formattedPermissions' = list
        /\ origin' = origin \o [i \in 1..Len(entries) |-> pIdx]
        /\ IF pIdx = Len(pRows)
           THEN /\ pResp' = PermissionsReturned(pVariant, list)
                /\ pPc' = "done"
                /\ UNCHANGED pIdx
           ELSE /\ pIdx' = pIdx + 1
                /\ pPc' = "loop"
                /\ UNCHANGED pResp

\* One grant of the loop, up to its push or to the discovery query it awaits.
ProcessGrant ==
    /\ pPc = "loop"
    /\ LET permission == pRows[pIdx]
       IN  IF permission.table_id.t # "str"
           THEN \* permission.table_id.split throws a TypeError
                /\ pResp' = PermissionsThrown(pVariant)
                /\ pPc' = "failed"
                /\ UNCHANGED <<pIdx, formattedPermissions, origin, queryLog>>
           ELSE IF IsAdminGrant(permission)
           THEN /\ queryLog' = Append(queryLog, DiscoveryQueryLog(permission, pIdx))
                /\ pPc' = "awaitDiscovery"
                /\ UNCHANGED <<pIdx, formattedPermissions, origin, pResp>>
           ELSE /\ PushAndContinue(<< ReadEntry(BasePermission(pVariant, permission)) >>)
                /\ UNCHANGED queryLog
    /\ UNCHANGED <<permTable, pVariant, pEmail, pRows, discovered, tblRows, metaVars, normVars,
                   dataVars, loginVars, replayVars>>

\* The discovery query of an admin grant returns rows, or throws (unknown
\* table, or the store is unreachable).
DiscoveryReturn(ok) ==
    /\ pPc = "awaitDiscovery"
    /\ LET permission == pRows[pIdx]
           base == BasePermission(pVariant, permission)
           ref == AdminQueryRef(permission)
       IN  IF ok /\ ref \in Tables
           THEN \E experiments \in DiscoveryResults(ref) :
                  /\ PushAndContinue([i \in 1..Len(experiments) |->
                                        ExpandedEntry(base, experiments[i])])
                  /\ discovered' = Append(discovered,
                        [grant |-> pIdx, ok |-> TRUE, rows |-> experiments])
           ELSE /\ PushAndContinue(<< FallbackEntry(base) >>)
                /\ discovered' = Append(discovered,
                        [grant |-> pIdx, ok |-> FALSE, rows |-> <<>>])
    /\ UNCHANGED <<permTable, pVariant, pEmail, pRows, queryLog, tblRows, metaVars, normVars,
                   dataVars, loginVars, replayVars>>

-----------------------------------------------------------------------------
(* A second call of fetchPermissions in progress at the same time: its     *)
(* email, rows, loop index and list are locals of that call                *)

PeerIdle ==
    [pc |-> "idle", variant |-> "http", email |-> JUndef, rows |-> <<>>,
     idx |-> 0, list |-> <<>>, resp |-> NoResponse, overlap |-> FALSE]

\* The first request is between its first and its last step
InProgress == pPc \in { "awaitGrants", "loop", "awaitDiscovery" }

\* ghost: the second request took a step while the first was in progress
Overlapped(q) == [q EXCEPT !.overlap = q.overlap \/ InProgress]

PeerFrame ==
    UNCHANGED <<permVars, tblRows, metaVars, normVars, dataVars, loginVars, pPrev>>

PeerRequest(variant, email) ==
    /\ peer.pc = "idle"
    /\ peer' = Overlapped(
          IF variant = "http" /\ ~Truthy(email)
          THEN [peer EXCEPT !.variant = variant, !.email = email, !.pc = "rejected",
                            !.resp = HttpError(400, "Email is required")]
          ELSE [peer EXCEPT !.variant = variant, !.email = email, !.pc = "awaitGrants"])
    /\ PeerFrame

PeerGrantsReturn_SharedEmail(ok) ==
    /\ peer.pc = "awaitGrants"
    /\ ok => peer.email.t = "str"
    /\ peer' = Overlapped(
          IF ~ok
          THEN [peer EXCEPT !.resp = PermissionsThrown(peer.variant), !.pc = "failed"]
          ELSE LET rows == GrantQueryResult(IF InProgress THEN pEmail ELSE peer.email)
               IN  IF Len(rows) = 0
                   THEN [peer EXCEPT !.rows = rows, !.pc = "done",
                                     !.resp = PermissionsReturned(peer.variant, <<>>)]
                   ELSE [peer EXCEPT !.rows = rows, !.pc = "loop", !.idx = 1])
    /\ PeerFrame

\* const [rows] = await bigQueryClient.query(options) of the second call
PeerGrantsReturn(ok) ==
    /\ peer.pc = "awaitGrants"
    /\ ok => peer.email.t = "str"
    /\ peer' = Overlapped(
          IF ~ok
          THEN [peer EXCEPT !.resp = PermissionsThrown(peer.variant), !.pc = "failed"]
          ELSE LET rows == GrantQueryResult(peer.email)
               IN  IF Len(rows) = 0
                   THEN [peer EXCEPT !.rows = rows, !.pc = "done",
                                     !.resp = PermissionsReturned(peer.variant, <<>>)]
                   ELSE [peer EXCEPT !.rows = rows, !.pc = "loop", !.idx = 1])
    /\ PeerFrame

\* The second call after pushing `entries` for its grant idx
PeerPushed(entries) ==
    LET list == peer.list \o entries
    IN  IF peer.idx = Len(peer.rows)
        THEN [peer EXCEPT !.list = list, !.pc = "done",
                          !.resp = PermissionsReturned(peer.variant, list)]
        ELSE [peer EXCEPT !.list = list, !.pc = "loop", !.idx = peer.idx + 1]

PeerProcessGrant ==
    /\ peer.pc = "loop"
    /\ LET permission == peer.rows[peer.idx]
       IN  peer' = Overlapped(
              IF permission.table_id.t # "str"
              THEN [peer EXCEPT !.resp = PermissionsThrown(peer.variant), !.pc = "failed"]
              ELSE IF IsAdminGrant(permission)
              THEN [peer EXCEPT !.pc = "awaitDiscovery"]
              ELSE PeerPushed(<< ReadEntry(BasePermission(peer.variant, permission)) >>))
    /\ PeerFrame

PeerDiscoveryReturn(ok) ==
    /\ peer.pc = "awaitDiscovery"
    /\ LET permission == peer.rows[peer.idx]
           base == BasePermission(peer.variant, permission)
           ref == AdminQueryRef(permission)
       IN  IF ok /\ ref \in Tables
           THEN \E experiments \in DiscoveryResults(ref) :
                  peer' = Overlapped(PeerPushed([i \in 1..Len(experiments) |->
                                        ExpandedEntry(base, experiments[i])]))
           ELSE peer' = Overlapped(PeerPushed(<< FallbackEntry(base) >>))
    /\ PeerFrame

PermIdle ==
    /\ pPc = "idle"
    /\ pVariant = "http"
    /\ pEmail = JUndef
    /\ pRows = <<>>
    /\ pIdx = 0
    /\ formattedPermissions = <<>>
    /\ origin = <<>>
    /\ pResp = NoResponse
    /\ queryLog = <<>>
    /\ discovered = <<>>

TableContents == { R \in SUBSET RowPool : Cardinality(R) <= MaxRows }

\* Experiment tables of growing size
GrowingTables == { { RowSeq[i] : i \in 1..n } : n \in 0..(IF MaxRows < Len(RowSeq) THEN MaxRows ELSE Len(RowSeq)) }

MetaIdle ==
    /\ mPc = "idle"
    /\ mVariant = "concurrent"
    /\ mExperiments = <<>>
    /\ tasks = <<>>
    /\ mCompletion = <<>>
    /\ sIdx = 0
    /\ sTimeRange = <<>>
    /\ metadataResults = <<>>
    /\ mResp = NoResponse
    /\ failures = {}
    /\ sampled = <<>>

NormIdle ==
    /\ nPc = "idle"
    /\ nOut = JUndef
    /\ nOut2 = JUndef

DataIdle ==
    /\ dPc = "idle"
    /\ dBody = JUndef
    /\ dQueries = <<>>
    /\ dResp = NoResponse

LoginIdle ==
    /\ lPc = "idle"
    /\ lVariant = "http"
    /\ lData = JUndef
    /\ lResp = NoResponse

InitPerm ==
    /\ permTable \in SeqsUpTo(GrantRows, MaxGrants)
    /\ tblRows \in TableContents
    /\ PermIdle
    /\ MetaIdle
    /\ NormIdle
    /\ DataIdle
    /\ LoginIdle
    /\ userTable = {}
    /\ pPrev = NoResponse
    /\ peer = PeerIdle
    /\ nIn = JUndef

NextPerm ==
    \/ \E variant \in { "http", "socket" }, email \in Emails : PermRequest(variant, email)
    \/ PermRequestNoPayload
    \/ \E ok \in BOOLEAN : GrantsReturn(ok)
    \/ ProcessGrant
    \/ \E ok \in BOOLEAN : DiscoveryReturn(ok)

vars == <<permVars, tblRows, metaVars, normVars, dataVars, loginVars, replayVars>>

SpecPerm == InitPerm /\ [][NextPerm]_vars

-----------------------------------------------------------------------------
(* Properties of the permission resolver *)

\* Grant i of the request has been through its loop iteration
Processed(i) ==
    /\ i \in 1..Len(pRows)
    /\ \/ i < pIdx
       \/ pPc = "done"

EntriesOf(i) == { k \in 1..Len(formattedPermissions) : origin[k] = i }

QueriesOf(i) == { q \in 1..Len(queryLog) : queryLog[q].item = i }

\* The list the caller received, when the resolver returned one
ListReturned == pPc = "done" /\ pResp = PermissionsReturned(pVariant, formattedPermissions)

\* C1: every grant with role = read yields exactly one entry, with
\* is_admin = false and experiment_name equal to the grant's experiment, and
\* no discovery query is issued for it; the returned list is the list built.
C1_ReadGrantOneEntry ==
    /\ \A i \in 1..Len(pRows) :
          (pRows[i].role = Str("read") /\ Processed(i)) =>
             /\ Cardinality(EntriesOf(i)) = 1
             /\ \A k \in EntriesOf(i) :
                   /\ formattedPermissions[k].is_admin = FALSE
                   /\ formattedPermissions[k].experiment_name = pRows[i].experiment
             /\ QueriesOf(i) = {}
    /\ pPc = "done" => ListReturned

C1_Witness ==
    /\ ListReturned
    /\ Len(pRows) = 2
    /\ pRows[1].role = Str("admin")
    /\ pRows[2].role = Str("read")
    /\ Cardinality(EntriesOf(1)) = 2
    /\ Cardinality(EntriesOf(2)) = 1

\* The discovery outcome recorded for grant i
DiscoveryOf(i) == { d \in 1..Len(discovered) : discovered[d].grant = i }

\* C2: an admin grant whose discovery query succeeds with N distinct names
\* yields exactly N entries, one per discovered name, each with
\* is_admin = true and with owner, valid_until (as normalised for the grant)
\* and table_id taken from the grant.
C2_AdminExpansion ==
    \A i \in 1..Len(pRows) : \A d \in DiscoveryOf(i) :
        (pRows[i].role = Str("admin") /\ Processed(i) /\ discovered[d].ok) =>
           LET names == discovered[d].rows
           IN  /\ Cardinality(EntriesOf(i)) = Len(names)
               /\ Cardinality({ names[n] : n \in 1..Len(names) }) = Len(names)
               /\ { formattedPermissions[k].experiment_name : k \in EntriesOf(i) }
                     = { names[n] : n \in 1..Len(names) }
               /\ \A k \in EntriesOf(i) :
                     /\ formattedPermissions[k].is_admin = TRUE
                     /\ formattedPermissions[k].owner = pRows[i].owner
                     /\ formattedPermissions[k].valid_until = ValidUntilOf(pRows[i])
                     /\ formattedPermissions[k].table_id = pRows[i].table_id

C2_Witness ==
    /\ ListReturned
    /\ \E i \in 1..Len(pRows) : \E d \in DiscoveryOf(i) :
          /\ pRows[i].role = Str("admin")
          /\ discovered[d].ok
          /\ Len(discovered[d].rows) = 2
          /\ Cardinality(EntriesOf(i)) = 2
          /\ pRows[i].valid_until # JNull
          /\ \A k \in EntriesOf(i) :
                formattedPermissions[k].experiment_name # pRows[i].experiment

\* The grant query was issued and returned zero rows
NoGrantsFound == pPc = "done" /\ queryLog # <<>> /\ pRows = <<>>

\* C3: zero grant rows give an empty list as a success (HTTP 200,
\* success = true, permissions = []; an empty emission on the socket) and
\* the grant query stays the only store query.
C3_NoGrantsEmptySuccess ==
    NoGrantsFound =>
        /\ pVariant = "http" => pResp = HttpOk(<<>>)
        /\ pVariant = "socket" => pResp = Emit(<<>>)
        /\ Len(queryLog) = 1
        /\ queryLog[1].kind = "grants"

C3_Witness ==
    /\ NoGrantsFound
    /\ pVariant = "http"
    /\ pEmail = Str("nobody")
    /\ permTable # <<>>
    /\ pResp.status = 200

\* The grant query itself threw
GrantQueryFailed == pPc = "failed" /\ pRows = <<>> /\ Len(queryLog) = 1

ThrownInLoop == pPc = "failed" /\ pRows # <<>>

\* C11: when the discovery query of an admin grant fails, exactly one entry
\* is pushed for that grant, with experiment_name equal to the grant's own
\* experiment and is_admin = true; the loop goes on with the next grant (or
\* returns the list), and the request is not failed by the discovery failure.
C11_DiscoveryFailureFallsBack ==
    \A d \in 1..Len(discovered) :
        ~discovered[d].ok =>
            LET i == discovered[d].grant
            IN  /\ Processed(i) \/ ThrownInLoop
                /\ Cardinality(EntriesOf(i)) = 1
                /\ \A k \in EntriesOf(i) :
                      /\ formattedPermissions[k].experiment_name = pRows[i].experiment
                      /\ formattedPermissions[k].is_admin = TRUE
                      /\ formattedPermissions[k].table_id = pRows[i].table_id
                /\ ThrownInLoop => /\ pIdx > i
                                   /\ pRows[pIdx].table_id.t # "str"
                /\ pPc = "done" => ListReturned

C11_Witness ==
    /\ ListReturned
    /\ Len(pRows) = 2
    /\ Len(discovered) = 1
    /\ discovered[1].grant = 1
    /\ ~discovered[1].ok
    /\ AdminQueryRef(pRows[1]) \in Tables
    /\ EntriesOf(2) # {}
    /\ Len(pResp.body) = 1 + Cardinality(EntriesOf(2))

\* A grant whose table_id is missing, empty or has fewer than three segments
Malformed(permission) ==
    \/ permission.table_id.t # "str"
    \/ Len(Segments(permission)) < 3

\* Grant i has its entries in the list: at least one, unless it is an admin
\* grant whose discovery query succeeded without any name
Resolved(i) ==
    \/ EntriesOf(i) # {}
    \/ \E d \in DiscoveryOf(i) : discovered[d].ok /\ discovered[d].rows = <<>>

\* C12: a grant with a malformed table_id never prevents the other grants of
\* the email from being resolved: once the grant query has returned rows the
\* request ends with the list, the list holds the entries of every grant,
\* and a malformed grant has an entry with placeholder identifiers.
C12_MalformedNeverBlocks ==
    (/\ pPc \in { "done", "failed" }
     /\ \E i \in 1..Len(pRows) : Malformed(pRows[i])) =>
        /\ ListReturned
        /\ \A i \in 1..Len(pRows) : Resolved(i)

\* What does hold: a table_id that is a string with fewer than three
\* segments (the empty string included) blocks nothing
ShortTableIdNeverBlocks ==
    (/\ pPc \in { "done", "failed" }
     /\ pRows # <<>>
     /\ \A i \in 1..Len(pRows) : pRows[i].table_id.t = "str") =>
        /\ ListReturned
        /\ \A i \in 1..Len(pRows) : Resolved(i)

\* C21: the returned list is the concatenation of the per-grant entries in
\* the order the store returned the grants (entries of grant i precede those
\* of grant j for i < j), and the entries of one admin grant follow the
\* order of the rows of its discovery query
C21_GrantOrderPreserved ==
    /\ Len(origin) = Len(formattedPermissions)
    /\ \A k, l \in 1..Len(formattedPermissions) :
          k < l => origin[k] <= origin[l]
    /\ \A i \in 1..Len(pRows) : \A d \in DiscoveryOf(i) :
          (pRows[i].role = Str("admin") /\ Processed(i) /\ discovered[d].ok
             /\ discovered[d].rows # <<>>) =>
             LET names == discovered[d].rows
                 first == CHOOSE k \in EntriesOf(i) : \A l \in EntriesOf(i) : k <= l
             IN  \A n \in 1..Len(names) :
                    /\ first + n - 1 \in EntriesOf(i)
                    /\ formattedPermissions[first + n - 1].experiment_name = names[n]
    /\ pPc = "done" => pResp = PermissionsReturned(pVariant, formattedPermissions)

\* Two grants answered: an admin grant expanded to two experiments, then a
\* read grant, three entries in that order
C21_Witness ==
    /\ ListReturned
    /\ Len(pRows) = 2
    /\ pRows[1].role = Str("admin")
    /\ pRows[2].role = Str("read")
    /\ Len(formattedPermissions) = 3
    /\ origin = <<1, 1, 2>>
    /\ \E d \in DiscoveryOf(1) :
          /\ discovered[d].ok
          /\ Len(discovered[d].rows) = 2
          /\ formattedPermissions[1].experiment_name = discovered[d].rows[1]
          /\ formattedPermissions[2].experiment_name = discovered[d].rows[2]
          /\ discovered[d].rows[1] # discovered[d].rows[2]
    /\ formattedPermissions[3].experiment_name = pRows[2].experiment

IsTimestampWrapper(x) == x.t = "obj" /\ Keys(x) = <<ValueKey>>

\* The timestamp of a grant as a plain string: the text inside a {value}
\* wrapper, or the string the store delivered
PlainTimestamp(x) ==
    IF IsTimestampWrapper(x) THEN GetProp(x, ValueKey) ELSE x

\* C22: the valid_until of every entry is null when its grant's valid_until
\* is null, and otherwise the grant's timestamp as a plain string, whether
\* the store delivered it as {value: <iso>} or as a plain string
C22_ValidUntilPlainString ==
    \A k \in 1..Len(formattedPermissions) :
        LET grant == pRows[origin[k]]
            entry == formattedPermissions[k]
        IN  IF grant.valid_until = JNull
            THEN entry.valid_until = JNull
            ELSE /\ entry.valid_until.t = "str"
                 /\ entry.valid_until = PlainTimestamp(grant.valid_until)

\* What does hold: a null valid_until stays null and a wrapped one is
\* delivered as its inner string
WrappedValidUntilUnwrapped ==
    \A k \in 1..Len(formattedPermissions) :
        LET grant == pRows[origin[k]]
            entry == formattedPermissions[k]
        IN  /\ grant.valid_until = JNull => entry.valid_until = JNull
            /\ IsTimestampWrapper(grant.valid_until) =>
                  /\ entry.valid_until.t = "str"
                  /\ entry.valid_until = GetProp(grant.valid_until, ValueKey)

\* A grant whose valid_until arrived as a plain string has been answered
PlainValidUntilAnswered ==
    /\ ListReturned
    /\ \E k \in 1..Len(formattedPermissions) :
          /\ pRows[origin[k]].valid_until.t = "str"
          /\ formattedPermissions[k].valid_until = JUndef

\* C23: in every entry, is_admin = true iff access_level = 'admin' iff the
\* source grant's role is exactly 'admin'; any other role (values outside
\* {admin, read} included) yields access_level = 'read' and is_admin = false
C23_AdminIffRoleAdmin ==
    \A k \in 1..Len(formattedPermissions) :
        LET grant == pRows[origin[k]]
            entry == formattedPermissions[k]
        IN  /\ entry.is_admin = TRUE <=> entry.access_level = Str("admin")
            /\ entry.access_level = Str("admin") <=> grant.role = Str("admin")
            /\ grant.role # Str("admin") =>
                  /\ entry.access_level = Str("read")
                  /\ entry.is_admin = FALSE

\* A list returned with an entry of an admin grant and an entry of a grant
\* whose role is neither admin nor read
C23_Witness ==
    /\ ListReturned
    /\ \E k, l \in 1..Len(formattedPermissions) :
          /\ pRows[origin[k]].role = Str("admin")
          /\ formattedPermissions[k].is_admin = TRUE
          /\ formattedPermissions[k].access_level = Str("admin")
          /\ pRows[origin[l]].role \notin { Str("admin"), Str("read") }
          /\ formattedPermissions[l].is_admin = FALSE
          /\ formattedPermissions[l].access_level = Str("read")

-----------------------------------------------------------------------------
(* Two resolutions of the same email *)

\* The (grant, experiment_name) pairs of the list built so far
EntrySet ==
    { << origin[k], formattedPermissions[k].experiment_name >> :
        k \in 1..Len(formattedPermissions) }

\* The pairs the caller received: those of the list when one was returned
Delivered == IF pPc = "done" THEN EntrySet ELSE {}

\* What the store answered to the queries of the resolution
Outcomes ==
    [grants |-> ~(pPc = "failed" /\ pRows = <<>>),
     discovery |-> [d \in 1..Len(discovered) |-> discovered[d].ok]]

\* The client asks again for the permissions of the same email, once the
\* first resolution has ended; nothing is kept from the first resolution.
ResolveAgain ==
    /\ pPc \in { "done", "failed" }
    /\ pPrev = NoResponse
    /\ pPrev' = [kind |-> "resolution", delivered |-> Delivered, outcomes |-> Outcomes]
    /\ pPc' = "awaitGrants"
    /\ queryLog' = << GrantQueryLog(pEmail) >>
    /\ pRows' = <<>>
    /\ pIdx' = 0
    /\ formattedPermissions' = <<>>
    /\ origin' = <<>>
    /\ discovered' = <<>>
    /\ pResp' = NoResponse
    /\ UNCHANGED <<permTable, pVariant, pEmail, tblRows, metaVars, normVars,
                   dataVars, loginVars, peer>>

InitTwice ==
    /\ permTable \in SeqsUpTo(GrantRows, MaxGrants)
    /\ tblRows \in GrowingTables
    /\ PermIdle
    /\ MetaIdle
    /\ NormIdle
    /\ DataIdle
    /\ LoginIdle
    /\ userTable = {}
    /\ pPrev = NoResponse
    /\ peer = PeerIdle
    /\ nIn = JUndef

NextTwice ==
    \/ NextPerm
    \/ ResolveAgain

SpecTwice == InitTwice /\ [][NextTwice]_vars

SecondEnded == pPrev # NoResponse /\ pPc \in { "done", "failed" }

-----------------------------------------------------------------------------
(* Metadata resolver: controllers/experimentMetadataController.ts *)

Desc(project, dataset, table, exp, mac) ==
    [project_id |-> project, dataset_name |-> dataset, table_id |-> table,
     experiment_name |-> exp, mac_address |-> mac]

\* Descriptors a client may send
Descriptors ==
    { Desc(Str("p"), Str("d"), Str("t"), Str("exp_a"), JUndef),
      Desc(Str("p"), Str("d"), Str("t"), Str("exp_a"), Str("m1")),
      Desc(Str("p"), Str("d"), Str("t"), Str("exp_b"), JNull),
      Desc(Str("p"), Str("d"), JUndef, Str("exp_a"), JUndef),
      Desc(Str("p"), Str("d"), Str("n"), Str("exp_a"), JUndef) }

\* ISO strings of the timestamps 1..4 of RowPool
TickIso == << "2024-01-01", "2024-01-02", "2024-01-03", "2024-01-04" >>

K_first_timestamp == <<"first_timestamp">>
K_last_timestamp == <<"last_timestamp">>

\* The project the store client is configured with
DefaultProject == <<"p">>

\* x || null
OrNull(x) == IF Truthy(x) THEN x ELSE JNull

\* project_id && dataset_name && table_id && experiment_name
IsValid(experiment) ==
    /\ Truthy(experiment.project_id)
    /\ Truthy(experiment.dataset_name)
    /\ Truthy(experiment.table_id)
    /\ Truthy(experiment.experiment_name)

\* `${project_id}.${dataset_name}.${table_id}`
DescriptorRef(experiment) ==
    TableRef(experiment.project_id.v, experiment.dataset_name.v, experiment.table_id.v)

\* bigQueryClient.dataset(dataset_name).table(table_id)
SchemaRef(experiment) ==
    TableRef(DefaultProject, experiment.dataset_name.v, experiment.table_id.v)

ScopedRows_AnyDevice(experiment) ==
    { r \in RowsOf(DescriptorRef(experiment)) : r.exp = experiment.experiment_name }

\* WHERE ExperimentData_Exp_name = @experiment_name
\*   [AND ExperimentData_MAC_address = @mac_address]   (only for a truthy mac)
ScopedRows(experiment) ==
    { r \in RowsOf(DescriptorRef(experiment)) :
        /\ r.exp = experiment.experiment_name
        /\ Truthy(experiment.mac_address) => r.mac = experiment.mac_address }

Cell(r, col) == r.cells[CHOOSE i \in 1..Len(r.cells) : r.cells[i][1] = col][2]

HasNonNull_AnyRow(rows, col) == rows # {}

HasNonNull(rows, col) == \E r \in rows : Cell(r, col) # JNull

\* schema.filter(field => field.name.startsWith("SensorData_")).map(field => field.name)
SensorColumns(schema) == SelectSeq(schema, LAMBDA c : Head(c) = "SensorData_")

\* The single row of the sensor check query:
\* IF(COUNTIF(col IS NOT NULL) > 0, 'col', NULL) AS col, for every sensor column
SensorCheckRow(experiment, sensorColumns) ==
    JObj([i \in 1..Len(sensorColumns) |->
            << sensorColumns[i],
               IF HasNonNull(ScopedRows(experiment), sensorColumns[i])
               THEN JStr(sensorColumns[i]) ELSE JNull >>])

NonNullKeys_Head(row) ==
    LET keys == SelectSeq(Keys(row), LAMBDA k : GetProp(row, k) # JNull)
    IN  IF keys = <<>> THEN <<>> ELSE << Head(keys) >>

\* Object.keys(row).filter(key => row[key] !== null)
NonNullKeys(row) == SelectSeq(Keys(row), LAMBDA k : GetProp(row, k) # JNull)

SetMin(S) == CHOOSE x \in S : \A y \in S : x <= y
SetMax(S) == CHOOSE x \in S : \A y \in S : x >= y

\* The single row of SELECT MIN(TimeStamp), MAX(TimeStamp) over the scoped rows
TimeRangeRow(experiment) ==
    LET stamps == { r.ts : r \in ScopedRows(experiment) } \ {0}
    IN  JObj(<< << K_first_timestamp,
                   IF stamps = {} THEN JNull ELSE Wrapper(Str(TickIso[SetMin(stamps)])) >>,
                << K_last_timestamp,
                   IF stamps = {} THEN JNull ELSE Wrapper(Str(TickIso[SetMax(stamps)])) >> >>)

\* { first_timestamp: timeRangeResults[0]?.first_timestamp || null, last_timestamp: ... }
TimeRangeOf(row) ==
    [first_timestamp |-> OrNull(GetProp(row, K_first_timestamp)),
     last_timestamp |-> OrNull(GetProp(row, K_last_timestamp))]

\* The record returned (pushed) for one descriptor
MetadataEntry(experiment, timeRange, availableSensors) ==
    [table_id |-> experiment.table_id,
     experiment_name |-> experiment.experiment_name,
     mac_address |-> OrNull(experiment.mac_address),
     time_range |-> timeRange,
     available_sensors |-> availableSensors]

MetaLog(kind, ref, experiment, idx) ==
    [kind |-> kind, ref |-> ref,
     params |-> <<experiment.experiment_name>>
                  \o (IF Truthy(experiment.mac_address)
                      THEN <<experiment.mac_address>> ELSE <<>>),
     item |-> idx,
     interpolated |-> { "body.project_id", "body.dataset_name", "body.table_id" }
                        \cup (IF kind = "sensorCheck" THEN { "store.schema" } ELSE {}),
     bound |-> { "body.experiment_name" }
                 \cup (IF Truthy(experiment.mac_address)
                       THEN { "body.mac_address" } ELSE {})]

SchemaFetchLog(experiment, idx) ==
    [kind |-> "schema", ref |-> SchemaRef(experiment), params |-> <<>>, item |-> idx,
     interpolated |-> { "body.dataset_name", "body.table_id" }, bound |-> {}]

MetadataFailed_Success(message) == HttpOk(<<>>) @@ [error |-> message]

\* catch (error): res.status(500).json({ success: false, message, error })
MetadataFailed(message) ==
    HttpError(500, "Failed to fetch experiment metadata") @@ [error |-> message]

InvalidExperiments(experiments) == SelectSeq(experiments, LAMBDA e : ~IsValid(e))

-----------------------------------------------------------------------------
(* getExperimentMetadata, schema-introspection controller (Promise.all) *)

\* One task of experiments.map: its position, the columns it read from the
\* schema, its record so far and the store calls it has issued, in order
NewTask(experiment, i) ==
    [pc |-> "awaitSchema", sensorColumns |-> <<>>, result |-> JUndef,
     queries |-> << SchemaFetchLog(experiment, i) >>]

PromiseAll_CompletionOrder(ts, completion) ==
    [i \in 1..Len(ts) |-> ts[completion[i]].result]

\* await Promise.all(experiments.map(async ...)): results by input index
PromiseAll(ts, completion) == [i \in 1..Len(ts) |-> ts[i].result]

RejectOnInvalid_Skip(experiments) == FALSE

\* invalidExperiments.length > 0
RejectOnInvalid(experiments) == Len(InvalidExperiments(experiments)) > 0

TaskThrows_Swallowed(i, message) ==
    /\ tasks' = [tasks EXCEPT ![i].pc = "thrown"]
    /\ UNCHANGED <<mResp, mPc>>

\* A task throws: Promise.all rejects with the first error, the catch block
\* answers 500 unless the request was answered already.
TaskThrows(i, message) ==
    /\ tasks' = [tasks EXCEPT ![i].pc = "thrown"]
    /\ IF mPc = "running"
       THEN /\ mResp' = MetadataFailed(message)
            /\ mPc' = "failed"
       ELSE UNCHANGED <<mResp, mPc>>

\* POST /experiments/metadata, concurrent controller: validation of the
\* array and of every descriptor, then every task runs up to its first await.
MetaRequestConcurrent(hasArray, experiments) ==
    /\ mPc = "idle"
    /\ mVariant' = "concurrent"
    /\ mExperiments' = experiments
    /\ IF ~hasArray
       THEN /\ mResp' = HttpError(400, "Valid experiments array is required")
            /\ mPc' = "rejected"
            /\ UNCHANGED <<tasks, queryLog>>
       ELSE IF RejectOnInvalid(experiments)
       THEN /\ mResp' = HttpError(400, "Some experiments are missing required fields")
                          @@ [invalidExperiments |-> InvalidExperiments(experiments)]
            /\ mPc' = "rejected"
            /\ UNCHANGED <<tasks, queryLog>>
       ELSE IF experiments = <<>>
       THEN /\ mResp' = HttpOk(<<>>)
            /\ mPc' = "done"
            /\ UNCHANGED <<tasks, queryLog>>
       ELSE /\ tasks' = [i \in 1..Len(experiments) |-> NewTask(experiments[i], i)]
            /\ mPc' = "running"
            /\ UNCHANGED <<mResp, queryLog>>
    /\ UNCHANGED <<mCompletion, sIdx, sTimeRange, metadataResults, tblRows,
                   failures, sampled, permTable, pPc, pVariant, pEmail, pRows, pIdx,
                   formattedPermissions, origin, pResp, discovered, normVars,
                   dataVars, loginVars, replayVars>>

ConcurrentRunning(i) ==
    /\ mVariant = "concurrent"
    /\ mPc \in { "running", "failed" }
    /\ i \in 1..Len(tasks)

\* Step 1: getMetadata() returns the schema, or throws
SchemaReturn(i, ok) ==
    /\ failures' = IF ok THEN failures ELSE failures \cup { [item |-> i, kind |-> "schema"] }
    /\ sampled' = sampled
    /\ ConcurrentRunning(i)
    /\ tasks[i].pc = "awaitSchema"
    /\ LET experiment == mExperiments[i]
       IN  /\ ok => SchemaRef(experiment) \in Tables
           /\ IF ok
              THEN /\ tasks' = [tasks EXCEPT
                        ![i].pc = "awaitSensors",
                        ![i].sensorColumns = SensorColumns(SchemaOf(SchemaRef(experiment))),
                        ![i].queries = Append(@,
                            MetaLog("sensorCheck", DescriptorRef(experiment), experiment, i))]
                   /\ UNCHANGED <<mResp, mPc>>
              ELSE TaskThrows(i, "Failed to fetch schema")
    /\ UNCHANGED queryLog
    /\ UNCHANGED <<mVariant, mExperiments, mCompletion, sIdx, sTimeRange,
                   metadataResults, tblRows, permTable, pPc, pVariant, pEmail,
                   pRows, pIdx, formattedPermissions, origin, pResp, discovered, normVars,
                   dataVars, loginVars, replayVars>>

\* Step 3: the sensor check query returns its row, or throws (a SELECT list
\* without any column is malformed SQL)
SensorCheckReturn(i, ok) ==
    /\ failures' = IF ok THEN failures ELSE failures \cup { [item |-> i, kind |-> "sensorCheck"] }
    /\ sampled' = sampled
    /\ ConcurrentRunning(i)
    /\ tasks[i].pc = "awaitSensors"
    /\ LET experiment == mExperiments[i]
       IN  /\ ok => /\ DescriptorRef(experiment) \in Tables
                    /\ tasks[i].sensorColumns # <<>>
           /\ IF ok
              THEN /\ tasks' = [tasks EXCEPT
                        ![i].pc = "awaitTime",
                        ![i].result = MetadataEntry(experiment, JUndef,
                            NonNullKeys(SensorCheckRow(experiment, tasks[i].sensorColumns))),
                        ![i].queries = Append(@,
                            MetaLog("timeRange", DescriptorRef(experiment), experiment, i))]
                   /\ UNCHANGED <<mResp, mPc>>
              ELSE TaskThrows(i, "Failed to fetch available sensors")
    /\ UNCHANGED queryLog
    /\ UNCHANGED <<mVariant, mExperiments, mCompletion, sIdx, sTimeRange,
                   metadataResults, tblRows, permTable, pPc, pVariant, pEmail,
                   pRows, pIdx, formattedPermissions, origin, pResp, discovered, normVars,
                   dataVars, loginVars, replayVars>>

\* Step 4: the time range query returns, or throws; the task returns its
\* record, and the response is sent once every task has returned.
TimeRangeReturn(i, ok) ==
    /\ failures' = IF ok THEN failures ELSE failures \cup { [item |-> i, kind |-> "timeRange"] }
    /\ sampled' = sampled
    /\ ConcurrentRunning(i)
    /\ tasks[i].pc = "awaitTime"
    /\ LET experiment == mExperiments[i]
       IN  /\ ok => DescriptorRef(experiment) \in Tables
           /\ IF ok
              THEN LET ts == [tasks EXCEPT
                                ![i].pc = "returned",
                                ![i].result.time_range = TimeRangeOf(TimeRangeRow(experiment))]
                       completion == Append(mCompletion, i)
                   IN  /\ tasks' = ts
                       /\ mCompletion' = completion
                       /\ IF mPc = "running" /\ \A j \in 1..Len(ts) : ts[j].pc = "returned"
                          THEN /\ mResp' = HttpOk(PromiseAll(ts, completion))
                               /\ mPc' = "done"
                          ELSE UNCHANGED <<mResp, mPc>>
              ELSE /\ TaskThrows(i, "Failed to fetch time range")
                   /\ UNCHANGED mCompletion
    /\ UNCHANGED <<mVariant, mExperiments, sIdx, sTimeRange, queryLog,
                   metadataResults, tblRows, permTable, pPc, pVariant, pEmail,
                   pRows, pIdx, formattedPermissions, origin, pResp, discovered, normVars,
                   dataVars, loginVars, replayVars>>

-----------------------------------------------------------------------------
(* getExperimentMetadata, sequential sampling controller *)

C_Labels == <<"SensorData_", "Labels">>
C_LabelOptions == <<"SensorData_", "LabelOptions">>

\* The columns listed in the UNPIVOT of the comprehensive query
UnpivotColumns == << C_temperature, C_humidity >>

\* A row of SELECT *: every column of the table
RowObject(ref, r) ==
    LET schema == SchemaOf(ref)
        value(col) ==
            IF col = C_TimeStamp
            THEN (IF r.ts = 0 THEN JNull ELSE Wrapper(Str(TickIso[r.ts])))
            ELSE IF col = C_Exp_name THEN r.exp
            ELSE IF col = C_MAC_address THEN r.mac
            ELSE Cell(r, col)
    IN  JObj([i \in 1..Len(schema) |-> << schema[i], value(schema[i]) >>])

\* Results of the sample query: SELECT * ... LIMIT 1
SampleResults(experiment) ==
    IF ScopedRows(experiment) = {} THEN { <<>> }
    ELSE { << RowObject(DescriptorRef(experiment), r) >> : r \in ScopedRows(experiment) }

SampleSensors_WithName(sampleRows) ==
    IF Len(sampleRows) > 0
    THEN SelectSeq(Keys(sampleRows[1]), LAMBDA key :
            /\ Head(key) = "SensorData_"
            /\ GetProp(sampleRows[1], key) # JNull)
    ELSE <<>>

\* Object.keys(row).filter(key => key.startsWith('SensorData_') && ... && row[key] !== null)
SampleSensors(sampleRows) ==
    IF Len(sampleRows) > 0
    THEN SelectSeq(Keys(sampleRows[1]), LAMBDA key :
            /\ Head(key) = "SensorData_"
            /\ key # C_Name
            /\ key # C_Labels
            /\ key # C_LabelOptions
            /\ GetProp(sampleRows[1], key) # JNull)
    ELSE <<>>

\* The comprehensive query: the listed columns with a non-null value among
\* the scoped rows, in the store's order; it fails when the table lacks a
\* listed column.
CountQueryOk(experiment) ==
    /\ DescriptorRef(experiment) \in Tables
    /\ \A i \in 1..Len(UnpivotColumns) :
          \E j \in 1..Len(SchemaOf(DescriptorRef(experiment))) :
              SchemaOf(DescriptorRef(experiment))[j] = UnpivotColumns[i]

CountResults(experiment) ==
    Enumerations({ UnpivotColumns[i] : i \in
        { j \in 1..Len(UnpivotColumns) :
            HasNonNull(ScopedRows(experiment), UnpivotColumns[j]) } })

\* Index of the next descriptor that is not skipped, 0 when none is left
NextValid(experiments, from) ==
    LET rest == { i \in (from + 1)..Len(experiments) : IsValid(experiments[i]) }
    IN  IF rest = {} THEN 0 ELSE SetMin(rest)

\* The for loop moves on after descriptor `from`: invalid descriptors are
\* skipped, the time range query of the next valid one is issued, and after
\* the last one the response is sent.
SeqContinue(experiments, from, results) ==
    LET n == NextValid(experiments, from)
    IN  /\ metadataResults' = results
        /\ IF n = 0
           THEN /\ mResp' = HttpOk(results)
                /\ mPc' = "done"
                /\ UNCHANGED <<sIdx, queryLog>>
           ELSE /\ sIdx' = n
                /\ mPc' = "seqTime"
                /\ queryLog' = Append(queryLog,
                      MetaLog("timeRange", DescriptorRef(experiments[n]), experiments[n], n))
                /\ UNCHANGED mResp

MetaRequestSequential(hasArray, experiments) ==
    /\ mPc = "idle"
    /\ mVariant' = "sequential"
    /\ mExperiments' = experiments
    /\ IF ~hasArray
       THEN /\ mResp' = HttpError(400, "Valid experiments array is required")
            /\ mPc' = "rejected"
            /\ UNCHANGED <<sIdx, queryLog, metadataResults>>
       ELSE SeqContinue(experiments, 0, <<>>)
    /\ UNCHANGED <<tasks, mCompletion, sTimeRange, tblRows, failures, sampled,
                   permTable, pPc, pVariant, pEmail, pRows, pIdx,
                   formattedPermissions, origin, pResp, discovered, normVars,
                   dataVars, loginVars, replayVars>>

\* The time range query returns, or throws into the outer catch
SeqTimeRangeReturn(ok) ==
    /\ failures' = IF ok THEN failures ELSE failures \cup { [item |-> sIdx, kind |-> "timeRange"] }
    /\ sampled' = sampled
    /\ mVariant = "sequential"
    /\ mPc = "seqTime"
    /\ LET experiment == mExperiments[sIdx]
       IN  /\ ok => DescriptorRef(experiment) \in Tables
           /\ IF ok
              THEN /\ sTimeRange' = TimeRangeRow(experiment)
                   /\ queryLog' = Append(queryLog,
                        MetaLog("sample", DescriptorRef(experiment), experiment, sIdx))
                   /\ mPc' = "seqSample"
                   /\ UNCHANGED mResp
              ELSE /\ mResp' = MetadataFailed("time range query")
                   /\ mPc' = "failed"
                   /\ UNCHANGED <<sTimeRange, queryLog>>
    /\ UNCHANGED <<mVariant, mExperiments, tasks, mCompletion, sIdx,
                   metadataResults, tblRows, permTable, pPc, pVariant, pEmail,
                   pRows, pIdx, formattedPermissions, origin, pResp, discovered, normVars,
                   dataVars, loginVars, replayVars>>

\* The sample query returns, or throws into the outer catch; with a sensor in
\* the sample the record is pushed, otherwise the comprehensive query is issued
SeqSampleReturn(ok) ==
    /\ failures' = IF ok THEN failures ELSE failures \cup { [item |-> sIdx, kind |-> "sample"] }
    /\ mVariant = "sequential"
    /\ mPc = "seqSample"
    /\ LET experiment == mExperiments[sIdx]
       IN  /\ ok => DescriptorRef(experiment) \in Tables
           /\ IF ok
              THEN \E sampleRows \in SampleResults(experiment) :
                     /\ sampled' = Append(sampled, [item |-> sIdx, rows |-> sampleRows])
                     /\ IF Len(SampleSensors(sampleRows)) = 0
                        THEN /\ queryLog' = Append(queryLog,
                                  MetaLog("count", DescriptorRef(experiment), experiment, sIdx))
                             /\ mPc' = "seqCount"
                             /\ UNCHANGED <<mResp, sIdx, metadataResults>>
                        ELSE SeqContinue(mExperiments, sIdx, Append(metadataResults,
                                  MetadataEntry(experiment, TimeRangeOf(sTimeRange),
                                                SampleSensors(sampleRows))))
              ELSE /\ mResp' = MetadataFailed("sample query")
                   /\ mPc' = "failed"
                   /\ UNCHANGED <<queryLog, sIdx, metadataResults, sampled>>
    /\ UNCHANGED <<mVariant, mExperiments, tasks, mCompletion, sTimeRange,
                   tblRows, permTable, pPc, pVariant, pEmail,
                   pRows, pIdx, formattedPermissions, origin, pResp, discovered, normVars,
                   dataVars, loginVars, replayVars>>

\* The comprehensive query returns, or throws and is caught: an empty list
SeqCountReturn(ok) ==
    /\ failures' = IF ok THEN failures ELSE failures \cup { [item |-> sIdx, kind |-> "count"] }
    /\ sampled' = sampled
    /\ mVariant = "sequential"
    /\ mPc = "seqCount"
    /\ LET experiment == mExperiments[sIdx]
       IN  /\ ok => CountQueryOk(experiment)
           /\ \E availableSensors \in
                   (IF ok THEN CountResults(experiment) ELSE { <<>> }) :
                 SeqContinue(mExperiments, sIdx, Append(metadataResults,
                     MetadataEntry(experiment, TimeRangeOf(sTimeRange), availableSensors)))
    /\ UNCHANGED <<mVariant, mExperiments, tasks, mCompletion, sTimeRange,
                   tblRows, permTable, pPc, pVariant, pEmail,
                   pRows, pIdx, formattedPermissions, origin, pResp, discovered, normVars,
                   dataVars, loginVars, replayVars>>

Batches == SeqsUpTo(Descriptors, MaxBatch)

InitMeta ==
    /\ permTable = <<>>
    /\ tblRows \in GrowingTables
    /\ PermIdle
    /\ MetaIdle
    /\ NormIdle
    /\ DataIdle
    /\ LoginIdle
    /\ userTable = {}
    /\ pPrev = NoResponse
    /\ peer = PeerIdle
    /\ nIn = JUndef

NextMeta ==
    \/ \E hasArray \in BOOLEAN, experiments \in Batches :
          /\ ~hasArray => experiments = <<>>
          /\ MetaRequestConcurrent(hasArray, experiments)
    \/ \E i \in 1..MaxBatch, ok \in BOOLEAN : SchemaReturn(i, ok)
    \/ \E i \in 1..MaxBatch, ok \in BOOLEAN : SensorCheckReturn(i, ok)
    \/ \E i \in 1..MaxBatch, ok \in BOOLEAN : TimeRangeReturn(i, ok)
    \/ \E hasArray \in BOOLEAN, experiments \in Batches :
          /\ ~hasArray => experiments = <<>>
          /\ MetaRequestSequential(hasArray, experiments)
    \/ \E ok \in BOOLEAN : SeqTimeRangeReturn(ok)
    \/ \E ok \in BOOLEAN : SeqSampleReturn(ok)
    \/ \E ok \in BOOLEAN : SeqCountReturn(ok)

SpecMeta == InitMeta /\ [][NextMeta]_vars

-----------------------------------------------------------------------------
(* Properties of the metadata resolver *)

ValidExperiments == SelectSeq(mExperiments, IsValid)

Rejected400 ==
    /\ mPc = "rejected"
    /\ mResp.kind = "http"
    /\ mResp.status = 400
    /\ mResp.success = FALSE
    /\ "invalidExperiments" \in DOMAIN mResp
    /\ mResp.invalidExperiments = InvalidExperiments(mExperiments)
    /\ queryLog = <<>>
    /\ tasks = <<>>

C5_ResultsByIndex ==
    (mVariant = "concurrent" /\ mPc = "done") =>
        /\ Len(mResp.body) = Len(mExperiments)
        /\ \A i \in 1..Len(mExperiments) :
              LET e == mExperiments[i]
                  m == mResp.body[i]
              IN  /\ m.table_id = e.table_id
                  /\ m.experiment_name = e.experiment_name
                  /\ m.mac_address = OrNull(e.mac_address)
                  /\ m.time_range = TimeRangeOf(TimeRangeRow(e))
                  /\ { m.available_sensors[k] : k \in 1..Len(m.available_sensors) }
                        = { c \in { SchemaOf(DescriptorRef(e))[j] :
                                       j \in 1..Len(SchemaOf(DescriptorRef(e))) } :
                              /\ Head(c) = "SensorData_"
                              /\ \E r \in ScopedRows(e) : Cell(r, c) # JNull }

C5_Witness ==
    /\ mVariant = "concurrent"
    /\ mPc = "done"
    /\ Len(mExperiments) = 2
    /\ mCompletion = <<2, 1>>
    /\ mResp.body[1].experiment_name # mResp.body[2].experiment_name
    /\ mResp.body[1].available_sensors # mResp.body[2].available_sensors
    /\ mResp.body[1].time_range # mResp.body[2].time_range

Answered == mPc \in { "done", "failed" }

NoSensorValue(e) ==
    \A j \in 1..Len(SchemaOf(DescriptorRef(e))) :
        Head(SchemaOf(DescriptorRef(e))[j]) = "SensorData_" =>
            \A r \in ScopedRows(e) : Cell(r, SchemaOf(DescriptorRef(e))[j]) = JNull

\* C7: in a successful response, a descriptor whose scoped rows hold no
\* non-null sensor value has available_sensors = []; its timestamps are
\* non-null only if a scoped row exists, and both are null without any.
C7_EmptySensorsAndRange ==
    mPc = "done" =>
        /\ Len(mResp.body) = Len(ValidExperiments)
        /\ \A k \in 1..Len(ValidExperiments) :
              LET e == ValidExperiments[k]
                  m == mResp.body[k]
              IN  /\ m.experiment_name = e.experiment_name
                  /\ NoSensorValue(e) => m.available_sensors = <<>>
                  /\ ScopedRows(e) = {} =>
                        /\ m.time_range.first_timestamp = JNull
                        /\ m.time_range.last_timestamp = JNull
                  /\ (\/ m.time_range.first_timestamp # JNull
                      \/ m.time_range.last_timestamp # JNull) => ScopedRows(e) # {}

C7_Witness ==
    /\ mPc = "done"
    /\ mVariant = "concurrent"
    /\ Len(mExperiments) = 2
    /\ NoSensorValue(mExperiments[1])
    /\ ScopedRows(mExperiments[1]) # {}
    /\ mResp.body[1].available_sensors = <<>>
    /\ mResp.body[1].time_range.first_timestamp # JNull
    /\ ScopedRows(mExperiments[2]) = {}
    /\ mResp.body[2].available_sensors = <<>>
    /\ mResp.body[2].time_range.first_timestamp = JNull
    /\ mResp.body[2].time_range.last_timestamp = JNull

\* What does hold: every name listed in a successful response is a
\* SensorData_ column with a non-null value among the descriptor's rows
SensorsListedHaveData ==
    mPc = "done" =>
        \A k \in 1..Len(ValidExperiments) :
            LET e == ValidExperiments[k]
                sensors == mResp.body[k].available_sensors
            IN  \A j \in 1..Len(sensors) :
                    /\ Head(sensors[j]) = "SensorData_"
                    /\ HasNonNull(ScopedRows(e), sensors[j])

\* The request was failed by the sensor check of descriptor i alone, whose
\* table exists and has no SensorData_ column at all
FailedForLackOfSensors(i) ==
    /\ mVariant = "concurrent"
    /\ mPc = "failed"
    /\ failures = { [item |-> i, kind |-> "sensorCheck"] }
    /\ DescriptorRef(mExperiments[i]) \in Tables
    /\ SensorColumns(SchemaOf(SchemaRef(mExperiments[i]))) = <<>>

\* C15: every name in available_sensors is a SensorData_ column with at
\* least one non-null value among the rows scoped by the descriptor, and a
\* descriptor with no such column gets an empty list, not an error.
C15_SensorsHaveDataOrEmpty ==
    /\ SensorsListedHaveData
    /\ \A i \in 1..Len(mExperiments) : ~FailedForLackOfSensors(i)

\* The store calls that discover the sensor columns of a descriptor
DiscoveryKinds == { "schema", "sensorCheck", "sample", "count" }

\* Position, in the list of the sequential controller, of the record of
\* descriptor i
ResultIndex(i) == Cardinality({ j \in 1..i : IsValid(mExperiments[j]) })

TimestampOf(x) ==
    IF x.t = "obj" /\ Len(x.v) = 1 /\ x.v[1][1] = ValueKey THEN x.v[1][2] ELSE x

\* The rows of the descriptor's table with its experiment name and, when a
\* MAC address is given, with that MAC address
RowsInScope(e) ==
    { r \in tblRows :
        /\ DescriptorRef(e) \in { T_pdt, T_pdn }
        /\ r.exp = e.experiment_name
        /\ e.mac_address \notin { JUndef, JNull } => r.mac = e.mac_address }

\* The timestamp string of the earliest (latest) row of a set, null without rows
Earliest(rows) ==
    IF rows = {} THEN JNull
    ELSE Str(TickIso[CHOOSE t \in { r.ts : r \in rows } : \A r \in rows : t <= r.ts])
Latest(rows) ==
    IF rows = {} THEN JNull
    ELSE Str(TickIso[CHOOSE t \in { r.ts : r \in rows } : \A r \in rows : t >= r.ts])

\* C19: in a successful response, the first and last timestamp of every
\* valid descriptor are the minimum and maximum TimeStamp over exactly the
\* rows with the descriptor's experiment name and, when a MAC address is
\* given, with that MAC address; no other row influences the range.
C19_RangeOverScopedRows ==
    mPc = "done" =>
        \A k \in 1..Len(ValidExperiments) :
            LET e == ValidExperiments[k]
                range == mResp.body[k].time_range
            IN  /\ TimestampOf(range.first_timestamp) = Earliest(RowsInScope(e))
                /\ TimestampOf(range.last_timestamp) = Latest(RowsInScope(e))

C19_Witness ==
    /\ mPc = "done"
    /\ Len(mExperiments) = 2
    /\ mExperiments[1].experiment_name = mExperiments[2].experiment_name
    /\ mExperiments[1].mac_address = JUndef
    /\ mExperiments[2].mac_address = Str("m1")
    /\ \E r \in tblRows : r.exp = Str("exp_a") /\ r.mac = Str("m2")
    /\ \E r \in tblRows : r.exp = Str("exp_b")
    /\ TimestampOf(mResp.body[1].time_range.last_timestamp) = Str(TickIso[3])
    /\ TimestampOf(mResp.body[2].time_range.last_timestamp) = Str(TickIso[1])
    /\ TimestampOf(mResp.body[1].time_range.first_timestamp) = Str(TickIso[1])

\* The SensorData_ columns of the descriptor's table with a non-null value
\* among the rows in the descriptor's scope
SensorsWithData(e) ==
    { col \in { SchemaOf(DescriptorRef(e))[j] : j \in 1..Len(SchemaOf(DescriptorRef(e))) } :
        /\ Head(col) = "SensorData_"
        /\ HasNonNull(RowsInScope(e), col) }

Listed(sensors) == { sensors[j] : j \in 1..Len(sensors) }

SampledListIncomplete ==
    /\ mPc = "done"
    /\ mVariant = "sequential"
    /\ \E k \in 1..Len(ValidExperiments) :
          /\ mResp.body[k].available_sensors # <<>>
          /\ Listed(mResp.body[k].available_sensors) # SensorsWithData(ValidExperiments[k])

\* The sampleRows the sample query of descriptor i returned
SampleOf(i) == { sampled[n].rows : n \in { m \in 1..Len(sampled) : sampled[m].item = i } }

\* The comprehensive query was issued for descriptor i
CountIssued(i) ==
    \E q \in 1..Len(queryLog) : queryLog[q].kind = "count" /\ queryLog[q].item = i

\* The non-null SensorData_ fields of a sampled row, SensorData_Name,
\* SensorData_Labels and SensorData_LabelOptions aside
SensorFieldsOf(row) ==
    { key \in Listed(Keys(row)) :
        /\ Head(key) = "SensorData_"
        /\ key \notin { C_Name, C_Labels, C_LabelOptions }
        /\ GetProp(row, key) # JNull }

SensorFieldsOfSample(rows) == IF rows = <<>> THEN {} ELSE SensorFieldsOf(rows[1])

\* Descriptor i has its record in the list
Recorded(i) == IsValid(mExperiments[i]) /\ ResultIndex(i) <= Len(metadataResults)

\* C25: in the sampling variant the comprehensive sensor query is issued for
\* a descriptor iff its single sampled row yields zero sensor columns (no
\* row, or all sensor fields null); when the sample yields a sensor,
\* available_sensors is exactly the set of non-null SensorData_ fields of
\* the sampled row other than SensorData_Name, _Labels and _LabelOptions
C25_ComprehensiveIffSampleEmpty ==
    mVariant = "sequential" =>
        \A i \in 1..Len(mExperiments) :
            /\ CountIssued(i) => SampleOf(i) # {}
            /\ \A rows \in SampleOf(i) :
                  /\ CountIssued(i) <=> SensorFieldsOfSample(rows) = {}
                  /\ (SensorFieldsOfSample(rows) # {}) =>
                        /\ Recorded(i)
                        /\ LET sensors == metadataResults[ResultIndex(i)].available_sensors
                           IN  /\ Listed(sensors) = SensorFieldsOfSample(rows)
                               /\ Len(sensors) = Cardinality(SensorFieldsOfSample(rows))

\* One request in which a sample with a sensor was answered from the sample,
\* a sample with a row of nulls and a sample without a row led to the
\* comprehensive query
C25_Witness ==
    /\ mVariant = "sequential"
    /\ mPc = "done"
    /\ Len(mExperiments) = 2
    /\ \E rows \in SampleOf(1) :
          /\ rows # <<>>
          /\ SensorFieldsOfSample(rows) # {}
          /\ ~CountIssued(1)
          /\ Listed(mResp.body[1].available_sensors) = SensorFieldsOfSample(rows)
    /\ \E rows \in SampleOf(2) :
          /\ rows # <<>>
          /\ SensorFieldsOfSample(rows) = {}
          /\ CountIssued(2)

\* A sample without any row led to the comprehensive query
SampleWithoutRow ==
    /\ mVariant = "sequential"
    /\ \E i \in 1..Len(mExperiments) : <<>> \in SampleOf(i) /\ CountIssued(i)

-----------------------------------------------------------------------------
(* Value normalizer: unwrapValues *)

K_a == <<"a">>
K_b == <<"b">>

\* Primitive values a store row may carry
Primitives == { Str("x"), JNum(5), JNull }

\* Nested values of depth at most n: wrappers, arrays and objects over the
\* values of depth n - 1 (a second element or property is a primitive)
RECURSIVE NestedValues(_)
NestedValues(n) ==
    IF n = 0 THEN Primitives
    ELSE LET inner == NestedValues(n - 1)
         IN  inner
               \cup { JArr(<<>>), JObj(<<>>) }
               \cup { Wrapper(x) : x \in inner }
               \cup { JArr(<<x>>) : x \in inner }
               \cup { JArr(<<x, JNum(5)>>) : x \in inner }
               \cup { JObj(<< <<K_a, x>> >>) : x \in inner }
               \cup { JObj(<< <<K_a, x>>, <<K_b, JNum(3)>> >>) : x \in inner }
               \cup { JObj(<< <<ValueKey, x>>, <<K_b, JNum(3)>> >>) : x \in inner }

\* function unwrapValues(obj)
RECURSIVE unwrapValues(_)
unwrapValues(obj) ==
    IF obj.t = "arr"
    THEN JArr([i \in 1..Len(obj.v) |-> unwrapValues(obj.v[i])])
    ELSE IF obj.t = "obj"
    THEN IF Len(Keys(obj)) = 1 /\ Keys(obj)[1] = ValueKey
         THEN GetProp(obj, ValueKey)
         ELSE JObj([i \in 1..Len(obj.v) |->
                      << obj.v[i][1], unwrapValues(obj.v[i][2]) >>])
    ELSE obj

\* A caller normalizes a value
Unwrap ==
    /\ nPc = "idle"
    /\ nOut' = unwrapValues(nIn)
    /\ nPc' = "once"
    /\ UNCHANGED <<nIn, nOut2, permVars, tblRows, metaVars, dataVars, loginVars, replayVars>>

\* The result is normalized once more
UnwrapAgain ==
    /\ nPc = "once"
    /\ nOut2' = unwrapValues(nOut)
    /\ nPc' = "twice"
    /\ UNCHANGED <<nIn, nOut, permVars, tblRows, metaVars, dataVars, loginVars, replayVars>>

InitNorm ==
    /\ permTable = <<>>
    /\ tblRows = {}
    /\ PermIdle
    /\ MetaIdle
    /\ NormIdle
    /\ DataIdle
    /\ LoginIdle
    /\ userTable = {}
    /\ pPrev = NoResponse
    /\ peer = PeerIdle
    /\ nIn \in NestedValues(MaxDepth)

NextNorm == Unwrap \/ UnwrapAgain

SpecNorm == InitNorm /\ [][NextNorm]_vars

\* The normalization the claims describe: every object whose only key is
\* `value` gives way to that key's value, at every depth
RECURSIVE DeepNormalize(_)
DeepNormalize(x) ==
    IF x.t = "arr"
    THEN JArr([i \in 1..Len(x.v) |-> DeepNormalize(x.v[i])])
    ELSE IF x.t = "obj"
    THEN IF Len(x.v) = 1 /\ x.v[1][1] = ValueKey
         THEN DeepNormalize(x.v[1][2])
         ELSE JObj([i \in 1..Len(x.v) |-> << x.v[i][1], DeepNormalize(x.v[i][2]) >>])
    ELSE x

\* C8: unwrapValues returns its argument with every object whose only key
\* is `value` replaced by that key's value and everything else unchanged.
C8_EveryWrapperReplaced ==
    nPc # "idle" => nOut = DeepNormalize(nIn)

\* The three examples of C8
C8_Examples ==
    /\ unwrapValues(Wrapper(Str("2024-01-01"))) = Str("2024-01-01")
    /\ unwrapValues(JObj(<< <<K_a, Wrapper(Str("x"))>>, <<K_b, JNum(3)>> >>))
          = JObj(<< <<K_a, Str("x")>>, <<K_b, JNum(3)>> >>)
    /\ unwrapValues(JArr(<< Wrapper(Str("x")), JNum(5) >>)) = JArr(<< Str("x"), JNum(5) >>)

\* C9: normalization is idempotent, unwrapValues(unwrapValues(x)) = unwrapValues(x).
C9_Idempotent ==
    nPc = "twice" => nOut2 = nOut

-----------------------------------------------------------------------------
(* Data fetch: getExperimentData behind POST /experiments/data *)

K_start == <<"start">>
K_end == <<"end">>

\* { start, end }
TimeRange(start, end) == JObj(<< <<K_start, start>>, <<K_end, end>> >>)

\* What a client may send as start (tick 1) or end (tick 3) of the range
TimeValues(tick) ==
    { JUndef, JNull, JStr(<<>>), Str(TickIso[tick]), Wrapper(Str(TickIso[tick])),
      Wrapper(JNull), Wrapper(JStr(<<>>)) }

TimeRanges ==
    { JUndef, Str("all") }
        \cup { TimeRange(s, e) : s \in TimeValues(1), e \in TimeValues(3) }

\* What a client may send as fields
FieldLists ==
    { JUndef, Str("SensorData_temperature"), JArr(<<>>),
      JArr(<< JStr(C_temperature) >>),
      JArr(<< JStr(C_temperature), JStr(C_humidity) >>),
      JArr(<< Str("no_such_column") >>) }

DataBody(table, exp, timeRange, fields) ==
    [project_id |-> Str("p"), dataset_name |-> Str("d"), table_id |-> table,
     experiment_name |-> exp, time_range |-> timeRange, fields |-> fields]

\* Request bodies of POST /experiments/data
DataBodies ==
    { DataBody(table, exp, tr, f) :
        table \in { Str("t"), JStr(T_pdt), Str("n"), JUndef },
        exp \in { Str("exp_a"), JUndef },
        tr \in TimeRanges,
        f \in FieldLists }

\* !project_id || !dataset_name || !table_id || !experiment_name ||
\* !time_range || !fields || !Array.isArray(fields) || fields.length === 0
MissingInput(body) ==
    \/ ~Truthy(body.project_id)
    \/ ~Truthy(body.dataset_name)
    \/ ~Truthy(body.table_id)
    \/ ~Truthy(body.experiment_name)
    \/ ~Truthy(body.time_range)
    \/ ~Truthy(body.fields)
    \/ body.fields.t # "arr"
    \/ body.fields.v = <<>>

\* typeof x === 'object' && 'value' in x, for x = null: the `in` operator
\* throws a TypeError
UnwrapThrows(x) == x.t = "null"

\* typeof x === 'object' && 'value' in x ? x.value : x
UnwrapTime(x) ==
    IF x.t = "obj" /\ ValueKey \in { Keys(x)[i] : i \in 1..Len(Keys(x)) }
    THEN GetProp(x, ValueKey)
    ELSE x

StartTime(body) == UnwrapTime(GetProp(body.time_range, K_start))
EndTime(body) == UnwrapTime(GetProp(body.time_range, K_end))

ActualTableId_Whole(table_id) == table_id.v

\* table_id.includes('.') ? parts[parts.length - 1] : table_id
ActualTableId(table_id) ==
    IF "." \in { table_id.v[i] : i \in 1..Len(table_id.v) }
    THEN SplitDot(table_id.v)[Len(SplitDot(table_id.v))]
    ELSE table_id.v

\* `${project_id}.${dataset_name}.${actualTableId}`
DataRef(body) ==
    TableRef(body.project_id.v, body.dataset_name.v, ActualTableId(body.table_id))

\* The query and its options: what is interpolated into the text, with the
\* place each fragment comes from, and what is bound as a parameter
DataQuery(body) ==
    [kind |-> "data", ref |-> DataRef(body),
     columns |-> [i \in 1..Len(body.fields.v) |-> body.fields.v[i].v],
     interpolated |-> { "body.project_id", "body.dataset_name", "body.table_id",
                        "body.fields" },
     bound |-> { "body.experiment_name", "body.time_range" },
     params |-> << body.experiment_name, StartTime(body), EndTime(body) >>,
     item |-> 1]

BadRequest(message) == HttpError(400, message)

\* next(error): the default error handler of the framework answers 500
\* with an HTML page, not with the JSON shape of the controller
UnhandledError == [kind |-> "http", status |-> 500]

DataFailed ==
    HttpError(500, "Failed to fetch experiment data.") @@ [error |-> "query"]

\* 1..Len(TickIso) for the timestamp strings, 0 for anything else
TickOf(x) ==
    IF x.t = "str" /\ \E i \in 1..Len(TickIso) : x.v = <<TickIso[i]>>
    THEN CHOOSE i \in 1..Len(TickIso) : x.v = <<TickIso[i]>>
    ELSE 0

\* WHERE ExperimentData_Exp_name = @experiment_name
\*   AND TimeStamp BETWEEN @start AND @end
DataRows(q) ==
    { r \in RowsOf(q.ref) :
        /\ r.exp = q.params[1]
        /\ r.ts >= TickOf(q.params[2])
        /\ r.ts <= TickOf(q.params[3]) }

\* The store accepts the query: the table exists, every selected column is
\* one of its columns and the bounds are timestamps
DataQueryOk(q) ==
    /\ q.ref \in Tables
    /\ \A i \in 1..Len(q.columns) :
          q.columns[i] \in { SchemaOf(q.ref)[j] : j \in 1..Len(SchemaOf(q.ref)) }
    /\ TickOf(q.params[2]) > 0
    /\ TickOf(q.params[3]) > 0

\* One row of SELECT TimeStamp, <fields>: TimeStamp is a BigQueryTimestamp
SelectedRow(r, columns) ==
    JObj(<< << C_TimeStamp, Wrapper(Str(TickIso[r.ts])) >> >>
         \o [i \in 1..Len(columns) |-> << columns[i], Cell(r, columns[i]) >>])

\* POST /experiments/data up to the response or to the await of the query
DataRequest(body) ==
    /\ dPc = "idle"
    /\ dBody' = body
    /\ IF MissingInput(body)
       THEN /\ dResp' = BadRequest("Project ID, dataset name, table ID, experiment name, time range, and at least one field are required.")
            /\ dPc' = "rejected"
            /\ UNCHANGED dQueries
       ELSE IF \/ UnwrapThrows(GetProp(body.time_range, K_start))
               \/ UnwrapThrows(GetProp(body.time_range, K_end))
       THEN /\ dResp' = UnhandledError
            /\ dPc' = "crashed"
            /\ UNCHANGED dQueries
       ELSE IF ~Truthy(StartTime(body)) \/ ~Truthy(EndTime(body))
       THEN /\ dResp' = BadRequest("Both start and end times are required in the time range.")
            /\ dPc' = "rejected"
            /\ UNCHANGED dQueries
       ELSE /\ dQueries' = Append(dQueries, DataQuery(body))
            /\ dPc' = "awaitQuery"
            /\ UNCHANGED dResp
    /\ UNCHANGED <<permVars, tblRows, metaVars, normVars, loginVars, replayVars>>

\* The query returns its rows (in the store's order), or throws
DataQueryReturn(ok) ==
    /\ dPc = "awaitQuery"
    /\ LET q == dQueries[Len(dQueries)]
       IN  /\ ok => DataQueryOk(q)
           /\ IF ok
              THEN \E rows \in Enumerations(DataRows(q)) :
                     /\ dResp' = HttpOk(JArr([i \in 1..Len(rows) |->
                                    unwrapValues(SelectedRow(rows[i], q.columns))]))
                     /\ dPc' = "done"
              ELSE /\ dResp' = DataFailed
                   /\ dPc' = "failed"
    /\ UNCHANGED <<dBody, dQueries, permVars, tblRows, metaVars, normVars, loginVars, replayVars>>

\* Grants the permission table may hold while data is fetched
DataGrants == { <<>> } \cup { <<g>> : g \in { x \in GrantRows : x.table_id.t = "str" } }

InitData ==
    /\ permTable \in DataGrants
    /\ tblRows \in GrowingTables
    /\ PermIdle
    /\ MetaIdle
    /\ NormIdle
    /\ DataIdle
    /\ LoginIdle
    /\ userTable = {}
    /\ pPrev = NoResponse
    /\ peer = PeerIdle
    /\ nIn = JUndef

NextData ==
    \/ \E body \in DataBodies : DataRequest(body)
    \/ \E ok \in BOOLEAN : DataQueryReturn(ok)

SpecData == InitData /\ [][NextData]_vars

\* fields missing, not an array or empty, or the time range incomplete
IncompleteRequest(body) ==
    \/ ~Truthy(body.fields)
    \/ body.fields.t # "arr"
    \/ body.fields.v = <<>>
    \/ ~Truthy(body.time_range)
    \/ \E k \in { K_start, K_end } :
          LET x == GetProp(body.time_range, k)
          IN  \/ ~Truthy(x)
              \/ x.t = "obj" /\ ~Truthy(GetProp(x, ValueKey))

\* C13: fetchData answers HTTP 400 with success = false, and issues no store
\* query, whenever fields is missing, not an array or empty, or the time
\* range is incomplete (missing, or start or end missing, null or empty,
\* given as a plain string or as a { value } wrapper).
C13_IncompleteRequestRejected ==
    (dPc # "idle" /\ IncompleteRequest(dBody)) =>
        /\ dPc = "rejected"
        /\ dResp.status = 400
        /\ "success" \in DOMAIN dResp
        /\ dResp.success = FALSE
        /\ dQueries = <<>>

\* What does hold: no query is issued for an incomplete request, and the
\* answer is 400 unless start or end is null itself
IncompleteRequestNeverQueried ==
    (dPc # "idle" /\ IncompleteRequest(dBody)) =>
        /\ dQueries = <<>>
        /\ dPc \in { "rejected", "crashed" }
        /\ dPc = "crashed" =>
              \/ GetProp(dBody.time_range, K_start) = JNull
              \/ GetProp(dBody.time_range, K_end) = JNull

\* Every query issued so far, by any of the three operations
AllQueries ==
    { queryLog[i] : i \in 1..Len(queryLog) }
        \cup UNION { { tasks[i].queries[j] : j \in 1..Len(tasks[i].queries) } :
                       i \in 1..Len(tasks) }
        \cup { dQueries[i] : i \in 1..Len(dQueries) }

\* The value parameters of the callers
ValueSources ==
    { "body.email", "body.experiment_name", "body.mac_address", "body.time_range" }

\* Table references that come from the grant rows of the permission store
GrantedRefs ==
    { PermissionsTableRef }
        \cup { AdminQueryRef(permTable[i]) : i \in 1..Len(permTable) }

\* C14: in every query issued, no caller-supplied value parameter is placed
\* in the SQL text, and every fragment interpolated into the text comes from
\* a grant row of the permission store, never from a request body.
C14_OnlyGrantIdentifiersInText ==
    \A q \in AllQueries :
        /\ q.interpolated \cap ValueSources = {}
        /\ q.interpolated \subseteq { "grant.table_id" }
        /\ q.ref \in GrantedRefs

\* What does hold: value parameters are always bound, never interpolated
ValuesAlwaysBound ==
    \A q \in AllQueries : q.interpolated \cap ValueSources = {}

\* The last dot-separated segment of an identifier
LastSegment(id) == SplitDot(id.v)[Len(SplitDot(id.v))]

\* The request body with its table_id replaced by the bare table name
WithBareTable(body) == [body EXCEPT !.table_id = JStr(LastSegment(body.table_id))]

\* C26: fetchData addresses the same table whether table_id is the bare
\* table name or a dotted project.dataset.table identifier: the queried
\* table is project_id.dataset_name.<last segment of table_id>, so the full
\* table_id and its extracted table name give the same rows
C26_SameTableBareOrDotted ==
    \A n \in 1..Len(dQueries) :
        LET q == dQueries[n]
        IN  /\ q.ref = TableRef(dBody.project_id.v, dBody.dataset_name.v,
                                LastSegment(dBody.table_id))
            /\ q.ref = DataQuery(WithBareTable(dBody)).ref
            /\ DataRows(q) = DataRows(DataQuery(WithBareTable(dBody)))
            /\ dPc = "done" =>
                  Len(dResp.body.v) = Cardinality(DataRows(DataQuery(WithBareTable(dBody))))

\* A request with the full identifier p.d.t was answered with the rows of
\* the table t of dataset d of project p
C26_Witness ==
    /\ dPc = "done"
    /\ dBody.table_id = JStr(T_pdt)
    /\ WithBareTable(dBody).table_id = Str("t")
    /\ dQueries[1].ref = T_pdt
    /\ Len(dResp.body.v) >= 1

-----------------------------------------------------------------------------
(* Timestamps delivered to the callers *)

\* An object whose only key is `value`: a BigQueryTimestamp as serialized
IsWrapper(x) == x.t = "obj" /\ Len(x.v) = 1 /\ x.v[1][1] = ValueKey

\* valid_until of every permission entry delivered
PermissionTimestamps ==
    IF pPc = "done"
    THEN { pResp.body[k].valid_until : k \in 1..Len(pResp.body) }
    ELSE {}

\* first_timestamp and last_timestamp of every metadata record delivered
MetadataTimestamps ==
    IF mPc = "done"
    THEN UNION { { mResp.body[k].time_range.first_timestamp,
                   mResp.body[k].time_range.last_timestamp } :
                 k \in 1..Len(mResp.body) }
    ELSE {}

\* Every value of every data row delivered
DataValues ==
    IF dPc = "done"
    THEN UNION { { dResp.body.v[k].v[j][2] : j \in 1..Len(dResp.body.v[k].v) } :
                 k \in 1..Len(dResp.body.v) }
    ELSE {}

\* C17: no response of resolvePermissions (valid_until), resolveMetadata
\* (time_range.first_timestamp, time_range.last_timestamp) or fetchData (row
\* values) contains a { value: ... } wrapper where a timestamp is delivered.
C17_NoWrapperDelivered ==
    \A x \in PermissionTimestamps \cup MetadataTimestamps \cup DataValues :
        ~IsWrapper(x)

\* What does hold: permissions and data rows are delivered without wrappers
PermissionsAndDataUnwrapped ==
    \A x \in PermissionTimestamps \cup DataValues : ~IsWrapper(x)

\* A data response that delivered a row, its TimeStamp as a string
DataRowDelivered ==
    /\ dPc = "done"
    /\ Len(dResp.body.v) = 2
    /\ GetProp(dResp.body.v[1], C_TimeStamp).t = "str"

-----------------------------------------------------------------------------
(* Login: router.post('/login') and the login_attempt event *)

UserRow(email, password) ==
    [email |-> Str(email), hashed_password |-> Str(password),
     created_at |-> Wrapper(Str("2023-05-01"))]

\* Rows the user table may hold
UserPool == { UserRow("alice", "pw1"), UserRow("alice", "pw2"), UserRow("bob", "pw2") }

\* The user table has one row per email
UserTables ==
    { T \in SUBSET UserPool : \A u, w \in T : u.email = w.email => u = w }

Credentials(username, password) == [username |-> username, password |-> password]

\* What a client may send; the event may also come without any payload
LoginPayloads ==
    { JUndef }
        \cup { Credentials(u, p) :
                 u \in { Str("alice"), Str("bob"), Str("carol"), JUndef, JStr(<<>>) },
                 p \in { Str("pw1"), Str("pw2"), JUndef, JStr(<<>>) } }

\* res.status(status).json({ success, message }) or
\* socket.emit('login_response', { success, message })
LoginResponse(variant, status, success, message) ==
    IF variant = "http"
    THEN [kind |-> "http", status |-> status, success |-> success, message |-> message]
    ELSE [kind |-> "emit", success |-> success, message |-> message]

\* { username: user.email, created_at: user.created_at }
UserResponse(user) == [username |-> user.email, created_at |-> user.created_at]

PasswordMatches_Any(password, user) == TRUE

\* password === user.hashed_password
PasswordMatches(password, user) == password = user.hashed_password

\* SELECT email, hashed_password, created_at FROM users WHERE email = @username
UserQueryResult(username) == { u \in userTable : u.email = username }

\* A login attempt up to its first response or to the await of the query
LoginRequest(variant, data) ==
    /\ lPc = "idle"
    /\ lVariant' = variant
    /\ lData' = data
    /\ IF data = JUndef
       THEN \* const { username, password } = data throws before the try block
            /\ variant = "socket"
            /\ lPc' = "crashed"
            /\ UNCHANGED lResp
       ELSE IF variant = "http" /\ (~Truthy(data.username) \/ ~Truthy(data.password))
       THEN /\ lResp' = LoginResponse(variant, 400, FALSE, "Username and password are required")
            /\ lPc' = "rejected"
       ELSE /\ lPc' = "awaitUser"
            /\ UNCHANGED lResp
    /\ UNCHANGED <<userTable, permVars, tblRows, metaVars, normVars, dataVars, replayVars>>

\* The user query returns its rows, or throws
UserQueryReturn(ok) ==
    /\ lPc = "awaitUser"
    /\ ok => lData.username.t = "str"
    /\ IF ~ok
       THEN /\ lResp' = LoginResponse(lVariant, 500, FALSE, "Internal server error")
            /\ lPc' = "failed"
       ELSE IF UserQueryResult(lData.username) = {}
       THEN /\ lResp' = LoginResponse(lVariant, 404, FALSE, "User not found")
            /\ lPc' = "done"
       ELSE \E user \in UserQueryResult(lData.username) :
              /\ lPc' = "done"
              /\ IF PasswordMatches(lData.password, user)
                 THEN lResp' = LoginResponse(lVariant, 200, TRUE, "Login successful")
                                 @@ [user |-> UserResponse(user)]
                 ELSE lResp' = LoginResponse(lVariant, 401, FALSE, "Invalid password")
    /\ UNCHANGED <<userTable, lVariant, lData, permVars, tblRows, metaVars, normVars,
                   dataVars, replayVars>>

InitLogin ==
    /\ permTable = <<>>
    /\ tblRows = {}
    /\ PermIdle
    /\ MetaIdle
    /\ NormIdle
    /\ DataIdle
    /\ LoginIdle
    /\ userTable \in UserTables
    /\ pPrev = NoResponse
    /\ peer = PeerIdle
    /\ nIn = JUndef

NextLogin ==
    \/ \E variant \in { "http", "socket" }, data \in LoginPayloads :
          LoginRequest(variant, data)
    \/ \E ok \in BOOLEAN : UserQueryReturn(ok)

SpecLogin == InitLogin /\ [][NextLogin]_vars

\* A response has been sent for the login attempt
LoginAnswered == lPc \in { "rejected", "done", "failed" }

\* The store holds a row for the supplied email whose password is the supplied one
CredentialsHeld ==
    /\ lData # JUndef
    /\ \E u \in userTable :
          /\ u.email = lData.username
          /\ u.hashed_password = lData.password

\* C20: a login response has success = true, with a user object, if and only
\* if the store holds a user row for the supplied email whose stored password
\* equals the supplied one (and the store answered); every other response has
\* success = false and no user object, and no response carries the stored
\* password.
C20_LoginIffCredentialsHeld ==
    /\ lResp # NoResponse <=> LoginAnswered
    /\ LoginAnswered =>
          /\ lResp.success = TRUE <=> (CredentialsHeld /\ lPc # "failed")
          /\ lResp.success = TRUE <=> "user" \in DOMAIN lResp
          /\ "hashed_password" \notin DOMAIN lResp
          /\ "user" \in DOMAIN lResp =>
                /\ DOMAIN lResp.user = { "username", "created_at" }
                /\ lResp.user.username = lData.username
                /\ \A u \in userTable :
                      u.hashed_password \notin { lResp.user.username, lResp.user.created_at }

C20_Witness ==
    /\ lPc = "done"
    /\ lResp.success = TRUE
    /\ lResp.user.username = Str("alice")
    /\ lData.password = Str("pw2")
    /\ Cardinality(userTable) = 2

\* A wrong password for a known email is refused
LoginRefused ==
    /\ lPc = "done"
    /\ lResp.success = FALSE
    /\ lData.password = Str("pw2")
    /\ UserRow("alice", "pw1") \in userTable
    /\ lData.username = Str("alice")

-----------------------------------------------------------------------------
(* From the resolved permissions to the metadata batch: the client's       *)
(* fetchExperimentMetadata                                                 *)

\* parts.length > 2 ? parts[2] : fullTableId
ExtractTableId(fullTableId) ==
    LET parts == SplitDot(fullTableId.v)
    IN  IF Len(parts) > 2 THEN JStr(parts[3]) ELSE fullTableId

\* permissions.map(permission => ({ project_id, dataset_name, table_id:
\* extractTableId(permission.table_id), experiment_name, mac_address }))
ClientDescriptor(permission) ==
    Desc(permission.project_id, permission.dataset_name,
         ExtractTableId(permission.table_id), permission.experiment_name,
         permission.mac_address)

ClientBatch(permissions) ==
    [i \in 1..Len(permissions) |-> ClientDescriptor(permissions[i])]

\* C29: every list returned by resolvePermissions, turned by the client into
\* one batch of descriptors, passes resolveMetadata's validation: no entry
\* (admin-expanded, admin fallback or from a malformed table_id) lacks a
\* required descriptor field, so the batch is never rejected with a 400
C29_ResolverOutputPassesValidation ==
    (ListReturned /\ formattedPermissions # <<>>) =>
        /\ ~RejectOnInvalid(ClientBatch(formattedPermissions))
        /\ \A k \in 1..Len(formattedPermissions) :
              IsValid(ClientDescriptor(formattedPermissions[k]))

\* What does hold: the entries of a grant that names an experiment, or whose
\* experiments were discovered, and whose table_id is not empty, are valid
\* descriptors
NamedEntriesPassValidation ==
    \A k \in 1..Len(formattedPermissions) :
        (/\ Truthy(formattedPermissions[k].experiment_name)
         /\ Truthy(formattedPermissions[k].table_id)) =>
            IsValid(ClientDescriptor(formattedPermissions[k]))

\* A list was returned whose fallback entry of an admin grant has no
\* experiment name
FallbackEntryWithoutExperiment ==
    /\ ListReturned
    /\ \E k \in 1..Len(formattedPermissions) :
          /\ pRows[origin[k]].role = Str("admin")
          /\ formattedPermissions[k].experiment_name = JNull
          /\ ~IsValid(ClientDescriptor(formattedPermissions[k]))

\* A list was returned with an entry of a grant whose table_id is empty
EmptyTableIdEntry ==
    /\ ListReturned
    /\ \E k \in 1..Len(formattedPermissions) :
          /\ formattedPermissions[k].table_id = JStr(<<>>)
          /\ Truthy(formattedPermissions[k].experiment_name)
          /\ ~IsValid(ClientDescriptor(formattedPermissions[k]))

-----------------------------------------------------------------------------
(* One request to the permissions, metadata or data endpoint, with the     *)
(* store answering every query it is sent                                  *)

\* Grants of the permission table while the endpoints are served: an admin
\* grant on p.d.t and a grant without table_id
ServeRows ==
    { g \in GrantRows :
        \/ g.role = Str("admin") /\ g.table_id = JStr(T_pdt)
        \/ g.table_id = JNull /\ g.email = Str("alice") }

InitServe ==
    /\ permTable \in SeqsUpTo(ServeRows, MaxGrants)
    /\ tblRows \in GrowingTables
    /\ PermIdle
    /\ MetaIdle
    /\ NormIdle
    /\ DataIdle
    /\ LoginIdle
    /\ userTable = {}
    /\ pPrev = NoResponse
    /\ peer = PeerIdle
    /\ nIn = JUndef

\* One request per behaviour: to POST /permissions or get_permissions, to
\* POST /experiments/metadata, or to POST /experiments/data
NextServe ==
    \/ mPc = "idle" /\ dPc = "idle" /\ NextPerm
    \/ pPc = "idle" /\ dPc = "idle" /\ NextMeta
    \/ pPc = "idle" /\ mPc = "idle" /\ NextData

\* The continuations of the handlers: each runs when the store query it
\* awaits has returned or thrown
PermSteps ==
    \/ \E ok \in BOOLEAN : GrantsReturn(ok)
    \/ ProcessGrant
    \/ \E ok \in BOOLEAN : DiscoveryReturn(ok)

MetaSteps ==
    \/ \E i \in 1..MaxBatch, ok \in BOOLEAN : SchemaReturn(i, ok)
    \/ \E i \in 1..MaxBatch, ok \in BOOLEAN : SensorCheckReturn(i, ok)
    \/ \E i \in 1..MaxBatch, ok \in BOOLEAN : TimeRangeReturn(i, ok)
    \/ \E ok \in BOOLEAN : SeqTimeRangeReturn(ok)
    \/ \E ok \in BOOLEAN : SeqSampleReturn(ok)
    \/ \E ok \in BOOLEAN : SeqCountReturn(ok)

DataSteps == \E ok \in BOOLEAN : DataQueryReturn(ok)

\* Every store query eventually returns or fails, and the event loop then
\* runs the continuation that awaits it
SpecServe ==
    /\ InitServe
    /\ [][NextServe]_vars
    /\ WF_vars(PermSteps)
    /\ WF_vars(MetaSteps)
    /\ WF_vars(DataSteps)

\* A response, once sent, is not followed by another one
ResponseKept ==
    /\ pResp # NoResponse => pResp' = pResp
    /\ mResp # NoResponse => mResp' = mResp
    /\ dResp # NoResponse => dResp' = dResp

\* C27: every request to the permissions, metadata and data endpoints gets
\* exactly one response: no handler sends a second response or emission on
\* any path, and, the store answering every query, the response is
\* eventually sent
C27_ExactlyOneResponse ==
    /\ [][ResponseKept]_vars
    /\ (pPc # "idle") ~> (pResp # NoResponse)
    /\ (mPc # "idle") ~> (mResp # NoResponse)
    /\ (dPc # "idle") ~> (dResp # NoResponse)

\* What does hold: no request gets two responses, and every request but a
\* get_permissions event without payload gets one
OneResponseUnlessNoPayload ==
    /\ [][ResponseKept]_vars
    /\ (pPc \notin { "idle", "crashed" }) ~> (pResp # NoResponse)
    /\ (mPc # "idle") ~> (mResp # NoResponse)
    /\ (dPc # "idle") ~> (dResp # NoResponse)

\* The get_permissions event without payload was received and nothing was emitted
NoPayloadUnanswered == pPc = "crashed" /\ pVariant = "socket" /\ pResp = NoResponse

-----------------------------------------------------------------------------
(* Two permission requests interleaved at their store queries *)

\* Grants of the permission table while two requests run: the grants of
\* alice on p.d.t (one read, one admin), and the grant of bob
PairRows ==
    { g \in GrantRows :
        \/ g.email = Str("alice") /\ g.table_id = JStr(T_pdt)
        \/ g.email = Str("bob") }

\* The permission tables made of these grants, each at most once, in any order
PairTables == UNION { Enumerations(S) : S \in SUBSET PairRows }

PairEmails == { Str("alice"), Str("bob"), JUndef }

InitPair ==
    /\ permTable \in PairTables
    /\ tblRows \in GrowingTables
    /\ PermIdle
    /\ MetaIdle
    /\ NormIdle
    /\ DataIdle
    /\ LoginIdle
    /\ userTable = {}
    /\ pPrev = NoResponse
    /\ peer = PeerIdle
    /\ nIn = JUndef

NextPair ==
    \/ \E variant \in { "http", "socket" }, email \in PairEmails : PermRequest(variant, email)
    \/ \E ok \in BOOLEAN : GrantsReturn(ok)
    \/ ProcessGrant
    \/ \E ok \in BOOLEAN : DiscoveryReturn(ok)
    \/ \E variant \in { "http", "socket" }, email \in PairEmails : PeerRequest(variant, email)
    \/ \E ok \in BOOLEAN : PeerGrantsReturn(ok)
    \/ PeerProcessGrant
    \/ \E ok \in BOOLEAN : PeerDiscoveryReturn(ok)

SpecPair == InitPair /\ [][NextPair]_vars

\* The entry lists one grant can contribute when its request runs alone:
\* the expansion for each order the discovery query may return, or the
\* fallback when that query fails; the single entry of any other grant
GrantOutcomes(variant, permission) ==
    LET base == BasePermission(variant, permission)
        ref == AdminQueryRef(permission)
    IN  IF permission.role = Str("admin")
        THEN { << base @@ [is_admin |-> TRUE] >> }
               \cup (IF ref \in Tables
                     THEN { [i \in 1..Len(names) |->
                               [base EXCEPT !.experiment_name = names[i]] @@ [is_admin |-> TRUE]] :
                            names \in Enumerations({ r.exp : r \in RowsOf(ref) }) }
                     ELSE {})
        ELSE { << base @@ [is_admin |-> FALSE] >> }

\* The lists a request for these grant rows can return when it runs alone
\* (none when a grant without table_id makes it throw)
RECURSIVE SoloLists(_, _)
SoloLists(variant, rows) ==
    IF rows = <<>> THEN { <<>> }
    ELSE IF Head(rows).table_id.t # "str" THEN {}
    ELSE { entries \o rest : entries \in GrantOutcomes(variant, Head(rows)),
                             rest \in SoloLists(variant, Tail(rows)) }

\* The responses a request can get when it runs alone against the store
SoloResponses(variant, email) ==
    IF variant = "http" /\ email \in { JUndef, JNull, JStr(<<>>) }
    THEN { HttpError(400, "Email is required") }
    ELSE { IF variant = "http" THEN HttpError(500, "Internal server error") ELSE Emit(<<>>) }
           \cup (IF email.t = "str"
                 THEN { IF variant = "http" THEN HttpOk(list) ELSE Emit(list) :
                          list \in SoloLists(variant,
                                     SelectSeq(permTable, LAMBDA g : g.email = email)) }
                 ELSE {})

FirstAnswered == pPc \in { "done", "failed", "rejected" }
SecondAnswered == peer.pc \in { "done", "failed", "rejected" }

SoloRunWithinSoloResponses ==
    FirstAnswered => pResp \in SoloResponses(pVariant, pEmail)

====
